---- MODULE Spec2Model ----
(***************************************************************************)
(* Model of replot_recent60_sba.py: the multi-source station               *)
(* reconciliation of main() (primary MADIS fetch, recency classification,  *)
(* secondary CWOP merge, last-good cache fallback), of the RASS profile    *)
(* retrieval before it (load_rass_with_fallback, parse_rass) and of the    *)
(* writing of the outputs after it.                                        *)
(*                                                                         *)
(* Conventions.                                                            *)
(*  - A Python dict row is a TLA+ record; row.get(k) is Get(row, k).       *)
(*  - An optional value is None (<<>>) or the one-tuple <<v>>.             *)
(*  - Times are whole minutes on one UTC axis; an ISO time string is the   *)
(*    minute it denotes, and BadTime is a string parse_iso_utc rejects.    *)
(*  - Temperatures are hundredths of a degree, speeds hundredths of m/s.   *)
(*  - A provider label is the sequence of its space-separated words, so    *)
(*    "MADIS (last-good)" is <<"MADIS", "(last-good)">> and "" is <<>>.    *)
(***************************************************************************)
EXTENDS Integers, Sequences, FiniteSets, TLC

VARIABLES
    roster,        \* the configured station ids (STATIONS), in canonical order
    now_utc,       \* main: now_utc, the run's reference time
    pc,            \* main's position: "rass", "primary", "cwop", "lastgood", "output",
                   \* "done", "aborted"
    queued,        \* tasks submitted to the current pool and not yet picked up
    running,       \* tasks a pool worker is executing
    stations,      \* main: stations, the list of rows
    cwop_targets,  \* main: cwop_targets
    cwop_rows,     \* main: cwop_rows, id -> secondary row
    last_good,     \* main: last_good, id -> cached row
    fetch_failed,  \* the <<feed, id>> fetches that raised inside their try block
    reordered,     \* some primary future completed before one submitted ahead of it
    rass,          \* load_rass_with_fallback: its locals and position
    parse,         \* parse_rass: its locals and position when it runs step by step
    disk,          \* the files: path -> content
    hist,          \* write_station_history: its inputs, its locals and the chart files
    render,        \* the chart helpers: the call being made and what it returned
    observed       \* the sequence of runs: the state document between two runs and,
                   \* for each cached field, when its value was observed live

mainVars == <<roster, now_utc, pc, queued, running, stations, cwop_targets,
              cwop_rows, last_good, fetch_failed, reordered>>

vars == <<roster, now_utc, pc, queued, running, stations, cwop_targets,
          cwop_rows, last_good, fetch_failed, reordered, rass, parse, disk,
          hist, render, observed>>

\* the variables of the history writer, of the chart helpers and of the
\* sequence of runs, which the stages of one run leave alone
auxVars == <<hist, render, observed>>

HistoryIdle == [pc |-> "idle"]

RenderIdle == [pc |-> "idle"]

NotObserved == [pc |-> "idle"]

-----------------------------------------------------------------------------
(* Program constants *)

STATIONS == <<"KC6OYN", "SE068", "SE234", "MTIC1", "MPWC1", "421SE", "SE053", "KSBA">>

STATION_NAMES ==
    [s \in {STATIONS[i] : i \in 1..Len(STATIONS)} |->
        CASE s = "KC6OYN" -> "La Cumbre"
          [] s = "SE068"  -> "VOR"
          [] s = "SE234"  -> "AntFarm"
          [] s = "MTIC1"  -> "Montecito"
          [] s = "MPWC1"  -> "SM Pass"
          [] s = "421SE"  -> "Parma"
          [] s = "SE053"  -> "Romero Cyn"
          [] OTHER        -> "Airport"]

LAST_GOOD_GRACE_MIN == 90

HISTORY_RETENTION_HOURS == 48

\* KTS_PER_MPS = 1.94384, in units of 1/100000
KTS_PER_MPS == 194384

\* draw_svg: the canvas height and the margins above and below the plot
height == 760

margin_top == 50

margin_bottom == 250

RECENT_MAX_AGE_MIN == 60

MAX_WORKERS == 4

RASS_LIST_RETRIES == 3

RASS_FILE_RETRIES == 2

RASS_CANDIDATE_COUNT == 5

CWOP_LABEL == <<"CWOP-findU">>

LAST_GOOD_TAG == "(last-good)"

-----------------------------------------------------------------------------
(* Bounds of the model *)

\* number of stations of STATIONS a multi-station run is explored with
NumStations == 2

\* age, in minutes, of the oldest observation a feed or the cache supplies
MaxAgeMin == 91

\* significant decimal digits of a float
FloatDigits == 3

\* number of lines after the header part of a sounding text
MaxRows == 3

\* number of stations of STATIONS the worker pool is explored with
PoolStations == 5

\* the longest loaded history
MaxSnapshots == 2

\* the most stations a chart plots
MaxPlotted == 3

-----------------------------------------------------------------------------
(* Optional values and dict access *)

None == <<>>

Some(v) == <<v>>

EmptyMap == [x \in {} |-> None]

Range(seq) == {seq[i] : i \in 1..Len(seq)}

Get(row, k) == IF k \in DOMAIN row THEN row[k] ELSE None

\* Python truthiness of an optional flag, and of an optional string
TruthyFlag(x) == x # None /\ x[1]

TruthyStr(x) == x # None /\ x[1] # <<>>

\* Python's "a or b" on optional strings
OrStr(a, b) == IF TruthyStr(a) THEN a ELSE b

BadTime == 0 - 1

\* parse_iso_utc: None for a missing, empty or unparseable string
parse_iso_utc(iso_time) ==
    IF iso_time = None THEN None
    ELSE IF iso_time[1] < 0 THEN None
    ELSE iso_time

ObsKeys == {"elev_m", "temp_c", "dew_c", "temp_ob_time", "provider",
            "wind_dir", "wind_spd_mps", "wind_gust_mps", "wind_ob_time"}

blank_station_row(station_id) ==
    [id |-> station_id,
     name |-> STATION_NAMES[station_id],
     elev_m |-> None,
     temp_c |-> None,
     dew_c |-> None,
     temp_ob_time |-> None,
     provider |-> None,
     wind_dir |-> None,
     wind_spd_mps |-> None,
     wind_gust_mps |-> None,
     wind_ob_time |-> None]

\* what a task raises instead of returning a row
Raised == [exception |-> "Exception"]

-----------------------------------------------------------------------------
(* fetch_station, lines 193-288.  resp is what the MADIS query gave:        *)
(* [ok |-> FALSE] when fetch_text or ET.fromstring raised, otherwise the    *)
(* outcome of the record loop (lines 232-261): any_elev and, per variable,  *)
(* the latest record [ob_time, val, provider] or None.                      *)

LaterWindTime(out, rec) ==
    IF out.wind_ob_time = None \/ rec.ob_time > out.wind_ob_time[1]
    THEN [out EXCEPT !.wind_ob_time = Some(rec.ob_time)]
    ELSE out

\* lines 263-288: the row built from any_elev and the latest records
MadisRow(out, resp) ==
    LET o1 == [out EXCEPT !.elev_m = resp.any_elev]
        o2 == IF resp.T # None
              THEN [o1 EXCEPT !.temp_c = Some(resp.T[1].val - 27315),
                              !.temp_ob_time = Some(resp.T[1].ob_time),
                              !.provider = Some(resp.T[1].provider)]
              ELSE o1
        o3 == IF resp.TD # None
              THEN [o2 EXCEPT !.dew_c = Some(resp.TD[1].val - 27315)]
              ELSE o2
        o4 == IF resp.DD # None
              THEN [o3 EXCEPT !.wind_dir = Some(resp.DD[1].val),
                              !.wind_ob_time = Some(resp.DD[1].ob_time)]
              ELSE o3
        o5 == IF resp.FF # None
              THEN LaterWindTime([o4 EXCEPT !.wind_spd_mps = Some(resp.FF[1].val)],
                                 resp.FF[1])
              ELSE o4
        o6 == IF resp.FFGUST # None
              THEN LaterWindTime([o5 EXCEPT !.wind_gust_mps = Some(resp.FFGUST[1].val)],
                                 resp.FFGUST[1])
              ELSE o5
    IN  o6

\* fetch_station without its try/except: the error leaves the task
fetch_station_unguarded(station_id, resp) ==
    IF ~resp.ok THEN Raised ELSE MadisRow(blank_station_row(station_id), resp)

fetch_station(station_id, resp) ==
    LET out == blank_station_row(station_id)
    IN  IF ~resp.ok THEN out ELSE MadisRow(out, resp)

-----------------------------------------------------------------------------
(* fetch_station_cwop, lines 343-397.  resp is [ok |-> FALSE] when the      *)
(* fetch raised or the text holds no "<station"; otherwise report is the    *)
(* most recent weatherReport (latest_rep) or None when there is none.       *)

CWOP_ELEV_M(station_id) == IF station_id = "KC6OYN" THEN Some(120100) ELSE None

\* (temp_f - 32.0) * (5.0 / 9.0), in hundredths
f_to_c(temp_f) == ((temp_f - 3200) * 5) \div 9

\* mph / MS_TO_MPH, in hundredths
mph_to_mps(mph) == (mph * 100000) \div 223694

\* Magnus approximation.  At 100 % humidity gamma = a*T/(b+T) and the result
\* is T exactly; the feeds of this model report 0 or 100 % only.  Between the
\* two the logarithm is linearised (about 1 degree per 5 %).
dewpoint_c_from_temp_rh(temp_c, rh_pct) ==
    IF rh_pct <= 0 \/ rh_pct > 100 THEN None
    ELSE IF rh_pct = 100 THEN Some(temp_c)
    ELSE Some(temp_c - (100 - rh_pct) * 20)

fetch_station_cwop(station_id, resp) ==
    LET out == [blank_station_row(station_id) EXCEPT !.elev_m = CWOP_ELEV_M(station_id)]
    IN  IF ~resp.ok THEN out
        ELSE IF resp.report = None THEN out
        ELSE
        LET rep == resp.report[1]
            obs_iso == Some(rep.timeReceived)
            o1 == IF rep.temperature # None
                  THEN [out EXCEPT !.temp_c = Some(f_to_c(rep.temperature[1])),
                                   !.temp_ob_time = obs_iso]
                  ELSE out
            o2 == IF o1.temp_c # None /\ rep.humidity # None
                  THEN [o1 EXCEPT !.dew_c =
                            dewpoint_c_from_temp_rh(o1.temp_c[1], rep.humidity[1])]
                  ELSE o1
            o3 == IF rep.windDirection # None
                  THEN [o2 EXCEPT !.wind_dir = rep.windDirection]
                  ELSE o2
            o4 == IF rep.windSpeed # None
                  THEN [o3 EXCEPT !.wind_spd_mps = Some(mph_to_mps(rep.windSpeed[1])),
                                  !.wind_ob_time = obs_iso]
                  ELSE o3
            o5 == IF rep.windGust # None
                  THEN [o4 EXCEPT !.wind_gust_mps = Some(mph_to_mps(rep.windGust[1])),
                                  !.wind_ob_time = obs_iso]
                  ELSE o4
            o6 == IF o5.temp_ob_time # None
                  THEN [o5 EXCEPT !.provider = Some(CWOP_LABEL)]
                  ELSE o5
        IN  o6

-----------------------------------------------------------------------------
(* Recency, lines 400-410 *)

\* update_age_and_recency with "<" for "<="
update_age_and_recency_strict(row, now) ==
    LET dt_utc == parse_iso_utc(Get(row, "temp_ob_time"))
        age == IF dt_utc # None THEN Some(now - dt_utc[1]) ELSE None
        rec == IF dt_utc # None THEN Some(age[1] < RECENT_MAX_AGE_MIN) ELSE Some(FALSE)
    IN  [k \in DOMAIN row \cup {"recent", "age_min"} |->
            IF k = "recent" THEN rec
            ELSE IF k = "age_min" THEN age
            ELSE row[k]]

update_age_and_recency(row, now) ==
    LET dt_utc == parse_iso_utc(Get(row, "temp_ob_time"))
        age == IF dt_utc # None THEN Some(now - dt_utc[1]) ELSE None
        rec == IF dt_utc # None THEN Some(age[1] <= RECENT_MAX_AGE_MIN) ELSE Some(FALSE)
    IN  [k \in DOMAIN row \cup {"recent", "age_min"} |->
            IF k = "recent" THEN rec
            ELSE IF k = "age_min" THEN age
            ELSE row[k]]

\* should_try_cwop that forgets the stale rows
should_try_cwop_missing_only(row) == Get(row, "temp_c") = None

should_try_cwop(row) ==
    Get(row, "temp_c") = None \/ ~TruthyFlag(Get(row, "recent"))

-----------------------------------------------------------------------------
(* merge_cwop_if_needed, lines 413-428 *)

CwopMergeKeys == {"temp_c", "dew_c", "temp_ob_time", "wind_dir",
                  "wind_spd_mps", "wind_gust_mps", "wind_ob_time"}

\* lines 420-428
MergeFields(madis_row, cwop_row) ==
    LET m1 == [k \in DOMAIN madis_row \cup CwopMergeKeys |->
                  IF k \in CwopMergeKeys /\ Get(cwop_row, k) # None
                  THEN cwop_row[k]
                  ELSE madis_row[k]]
        m2 == IF Get(m1, "elev_m") = None /\ Get(cwop_row, "elev_m") # None
              THEN [m1 EXCEPT !.elev_m = cwop_row.elev_m]
              ELSE m1
        m3 == IF Get(cwop_row, "temp_ob_time") # None
              THEN [m2 EXCEPT !.provider = OrStr(Get(cwop_row, "provider"), Some(CWOP_LABEL))]
              ELSE m2
    IN  m3

\* merge_cwop_if_needed without the test of lines 417-418
merge_cwop_unguarded(madis_row, cwop_row) ==
    IF Get(cwop_row, "temp_c") = None THEN madis_row
    ELSE MergeFields(madis_row, cwop_row)

merge_cwop_if_needed(madis_row, cwop_row) ==
    IF Get(cwop_row, "temp_c") = None THEN madis_row
    ELSE IF Get(madis_row, "temp_c") # None /\ TruthyFlag(Get(madis_row, "recent"))
    THEN madis_row
    ELSE MergeFields(madis_row, cwop_row)

-----------------------------------------------------------------------------
(* Last-good state, lines 453-467 and 697-745 *)

\* raw is one station's payload of the persisted state document
normalize_state_row(station_id, raw) ==
    LET row == blank_station_row(station_id)
        time(k) == IF Get(raw, k) # None /\ parse_iso_utc(raw[k]) # None
                   THEN raw[k]
                   ELSE None
    IN  [row EXCEPT !.provider = IF TruthyStr(Get(raw, "provider")) THEN raw.provider ELSE None,
                    !.elev_m = Get(raw, "elev_m"),
                    !.temp_c = Get(raw, "temp_c"),
                    !.dew_c = Get(raw, "dew_c"),
                    !.wind_dir = Get(raw, "wind_dir"),
                    !.wind_spd_mps = Get(raw, "wind_spd_mps"),
                    !.wind_gust_mps = Get(raw, "wind_gust_mps"),
                    !.temp_ob_time = time("temp_ob_time"),
                    !.wind_ob_time = time("wind_ob_time")]

age_minutes(iso_time, now) ==
    LET dt == parse_iso_utc(iso_time)
    IN  IF dt = None THEN None ELSE Some(now - dt[1])

\* within_grace without the limit: any cached time that parses
within_grace_always(iso_time, now) == age_minutes(iso_time, now) # None

\* within_grace with "<" for "<="
within_grace_strict(iso_time, now) ==
    LET age == age_minutes(iso_time, now)
    IN  age # None /\ age[1] < LAST_GOOD_GRACE_MIN

within_grace(iso_time, now) ==
    LET age == age_minutes(iso_time, now)
    IN  age # None /\ age[1] <= LAST_GOOD_GRACE_MIN

\* "(last-good)" in str(base_provider)
HasLastGoodTag(label) == \E i \in 1..Len(label) : label[i] = LAST_GOOD_TAG

\* TagProvider without the test of line 743
TagProvider_unchecked(merged, cached_row) ==
    LET base_provider == OrStr(OrStr(Get(merged, "provider"), Get(cached_row, "provider")),
                               Some(<<"cache">>))
    IN  [merged EXCEPT !.provider = Some(Append(base_provider[1], LAST_GOOD_TAG))]

\* lines 741-744
TagProvider(merged, cached_row) ==
    LET base_provider == OrStr(OrStr(Get(merged, "provider"), Get(cached_row, "provider")),
                               Some(<<"cache">>))
    IN  IF ~HasLastGoodTag(base_provider[1])
        THEN [merged EXCEPT !.provider = Some(Append(base_provider[1], LAST_GOOD_TAG))]
        ELSE merged

\* the guard left out: a cached value replaces a present one
FieldMissing_ignored(merged, key) == TRUE

\* merged.get(key) is None, the test that guards every adoption (lines 713-735)
FieldMissing(merged, key) == Get(merged, key) = None

apply_last_good_fallback(current_row, cached_row, now) ==
    LET m0 == current_row
        m1 == IF FieldMissing(m0, "elev_m") /\ Get(cached_row, "elev_m") # None
              THEN [m0 EXCEPT !.elev_m = cached_row.elev_m]
              ELSE m0
        temp_cache_ok == within_grace(Get(cached_row, "temp_ob_time"), now)
        wind_cache_ok == within_grace(Get(cached_row, "wind_ob_time"), now)
        useT == FieldMissing(m1, "temp_c") /\ temp_cache_ok /\ Get(cached_row, "temp_c") # None
        m2 == IF useT
              THEN [m1 EXCEPT !.temp_c = cached_row.temp_c,
                              !.temp_ob_time = Get(cached_row, "temp_ob_time")]
              ELSE m1
        useD == FieldMissing(m2, "dew_c") /\ temp_cache_ok /\ Get(cached_row, "dew_c") # None
        m3 == IF useD THEN [m2 EXCEPT !.dew_c = cached_row.dew_c] ELSE m2
        useS == FieldMissing(m3, "wind_spd_mps") /\ wind_cache_ok
                    /\ Get(cached_row, "wind_spd_mps") # None
        m4 == IF useS
              THEN [m3 EXCEPT !.wind_spd_mps = cached_row.wind_spd_mps,
                              !.wind_ob_time = Get(cached_row, "wind_ob_time")]
              ELSE m3
        useG == FieldMissing(m4, "wind_gust_mps") /\ wind_cache_ok
                    /\ Get(cached_row, "wind_gust_mps") # None
        m5 == IF useG
              THEN [m4 EXCEPT !.wind_gust_mps = cached_row.wind_gust_mps,
                              !.wind_ob_time = IF Get(m4, "wind_ob_time") = None
                                               THEN Get(cached_row, "wind_ob_time")
                                               ELSE m4.wind_ob_time]
              ELSE m4
        useW == FieldMissing(m5, "wind_dir") /\ wind_cache_ok /\ Get(cached_row, "wind_dir") # None
        m6 == IF useW
              THEN [m5 EXCEPT !.wind_dir = cached_row.wind_dir,
                              !.wind_ob_time = IF Get(m5, "wind_ob_time") = None
                                               THEN Get(cached_row, "wind_ob_time")
                                               ELSE m5.wind_ob_time]
              ELSE m5
        used_cache == useT \/ useD \/ useS \/ useG \/ useW
    IN  IF used_cache THEN TagProvider(m6, cached_row) ELSE m6

-----------------------------------------------------------------------------
(* What the feeds and the persisted state can hold.  Times are given as     *)
(* ages before now_utc, on the grid of the two limits and their neighbours. *)

AtAge(a) == now_utc - a

AgeRecentEdge == RECENT_MAX_AGE_MIN
AgeStale == RECENT_MAX_AGE_MIN + 1
AgeGraceEdge == LAST_GOOD_GRACE_MIN
AgeOld == MaxAgeMin

MadisRec(a, v, p) == Some([ob_time |-> AtAge(a), val |-> v, provider |-> p])

MadisError ==
    [ok |-> FALSE, any_elev |-> None, T |-> None, TD |-> None,
     DD |-> None, FF |-> None, FFGUST |-> None]

\* the five variables present or absent; temperature on the recency boundary,
\* wind speed observed later than wind direction and gust
FullMadisResponses ==
    {MadisError} \cup
    {[ok |-> TRUE, any_elev |-> e, T |-> t, TD |-> td, DD |-> dd, FF |-> ff, FFGUST |-> g] :
        e \in {None, Some(30000)},
        t \in {None, MadisRec(AgeRecentEdge, 28815, <<"MADIS">>),
               MadisRec(AgeStale, 28815, <<"MADIS">>),
               MadisRec(AgeStale, 28815, <<>>),
               Some([ob_time |-> BadTime, val |-> 28815, provider |-> <<"MADIS">>])},
        td \in {None, MadisRec(AgeRecentEdge, 28315, <<"MADIS">>)},
        dd \in {None, MadisRec(AgeStale, 270, <<"MADIS">>)},
        ff \in {None, MadisRec(AgeRecentEdge, 500, <<"MADIS">>)},
        g \in {None, MadisRec(AgeStale, 900, <<"MADIS">>)}}

\* a failed fetch, a complete recent answer, a stale temperature, wind only
CoarseMadisResponses ==
    {MadisError,
     [ok |-> TRUE, any_elev |-> Some(30000),
      T |-> MadisRec(AgeRecentEdge, 28815, <<"MADIS">>),
      TD |-> MadisRec(AgeRecentEdge, 28315, <<"MADIS">>),
      DD |-> MadisRec(AgeRecentEdge, 270, <<"MADIS">>),
      FF |-> MadisRec(AgeRecentEdge, 500, <<"MADIS">>),
      FFGUST |-> None],
     [ok |-> TRUE, any_elev |-> None,
      T |-> MadisRec(AgeStale, 28815, <<"MADIS">>),
      TD |-> None, DD |-> None, FF |-> None, FFGUST |-> None],
     [ok |-> TRUE, any_elev |-> Some(30000), T |-> None, TD |-> None,
      DD |-> MadisRec(AgeRecentEdge, 270, <<"MADIS">>), FF |-> None, FFGUST |-> None]}

CwopReport(a, t, h, d, sp, g) ==
    [ok |-> TRUE,
     report |-> Some([timeReceived |-> AtAge(a), temperature |-> t, humidity |-> h,
                      windDirection |-> d, windSpeed |-> sp, windGust |-> g])]

CwopError == [ok |-> FALSE, report |-> None]

CwopNoReport == [ok |-> TRUE, report |-> None]

FullCwopResponses ==
    {CwopError, CwopNoReport,
     CwopReport(0, None, Some(100), Some(180), Some(1000), Some(2000))} \cup
    {CwopReport(a, Some(6800), h, w[1], w[2], w[3]) :
        a \in {0, AgeOld},
        h \in {Some(0), Some(100)},
        w \in {<<None, None, None>>, <<Some(180), None, None>>,
               <<None, Some(1000), None>>, <<None, None, Some(2000)>>,
               <<Some(180), Some(1000), Some(2000)>>}}

CoarseCwopResponses ==
    {CwopError,
     CwopReport(0, Some(6800), Some(100), Some(180), Some(1000), None)}

\* one station's payload in the persisted state document (station_payload of
\* an earlier run): a temperature comes with its time, a wind time with wind
StatePayload(e, t, tt, d, p, wd, ws, wg, wt) ==
    [elev_m |-> e, temp_c |-> t, dew_c |-> d, temp_ob_time |-> tt, provider |-> p,
     wind_dir |-> wd, wind_spd_mps |-> ws, wind_gust_mps |-> wg, wind_ob_time |-> wt]

FullStatePayloads ==
    {StatePayload(e, tg[1], tg[2], tg[3], p, wg[1], wg[2], wg[3], wg[4]) :
        e \in {None, Some(45000)},
        tg \in {<<None, None, None>>,
                <<Some(1234), Some(AtAge(AgeGraceEdge)), Some(777)>>,
                <<Some(1234), Some(AtAge(AgeGraceEdge)), None>>,
                <<Some(1234), Some(AtAge(AgeOld)), Some(777)>>},
        p \in {None, Some(<<"MADIS">>), Some(<<"MADIS", LAST_GOOD_TAG>>)},
        wg \in {<<None, None, None, None>>,
                <<Some(90), None, None, Some(AtAge(AgeGraceEdge))>>,
                <<None, Some(321), None, Some(AtAge(AgeGraceEdge))>>,
                <<None, None, Some(654), Some(AtAge(AgeGraceEdge))>>,
                <<Some(90), Some(321), Some(654), Some(AtAge(AgeGraceEdge))>>,
                <<Some(90), Some(321), Some(654), Some(AtAge(AgeOld))>>}}

CoarseStatePayloads ==
    {StatePayload(Some(45000), Some(1234), Some(AtAge(a)), Some(777),
                  Some(<<"MADIS", LAST_GOOD_TAG>>), Some(90), Some(321), None, Some(AtAge(a))) :
        a \in {AgeGraceEdge, AgeOld}}

-----------------------------------------------------------------------------
(* The RASS sounding text and parse_rass, lines 104-162                    *)
(*                                                                         *)
(*  - raw.splitlines() is a sequence of lines and line.split() a sequence  *)
(*    of tokens.  A token is what float() makes of it: a finite number, an *)
(*    infinity ("inf"), or a word float() rejects with ValueError; a word  *)
(*    keeps its characters.  A blank line has no tokens.                   *)
(*  - The first token of a table row is kept in meters, i.e. as the value  *)
(*    of float(parts[0]) * 1000.0; temperatures are hundredths of a degree.*)
(*  - Python floats round every arithmetic result to a fixed number of     *)
(*    significant digits (53 bits).  The model keeps that behaviour with a *)
(*    decimal significand of FloatDigits digits: fl rounds an exact result *)
(*    to the nearest representable value, ties to even.                    *)

\* a local variable assignment: v is computed once and Body reads the value
Bind(v, Body(_)) == CHOOSE result \in {Body(x) : x \in {v}} : TRUE

Num(n) == [kind |-> "num", num |-> n, text |-> <<>>]

Word(chars) == [kind |-> "word", num |-> 0, text |-> chars]

Inf == [kind |-> "inf", num |-> 0, text |-> <<"i", "n", "f">>]

\* float("inf"), larger than every finite value of the model
Infinity == 1000 * 1000000

\* the missing-temperature sentinel of line 136, in hundredths of a degree
MISSING_TEMP == 999999 * 100

\* float(token): None stands for ValueError
Float(token) ==
    IF token.kind = "num" THEN Some(token.num)
    ELSE IF token.kind = "inf" THEN Some(Infinity)
    ELSE None

\* line.strip().startswith(prefix)
StartsWith(line, prefix) ==
    /\ line # <<>>
    /\ Len(line[1].text) >= Len(prefix)
    /\ SubSeq(line[1].text, 1, Len(prefix)) = prefix

\* lines 116-120: the index of the line after the first header line, or None
HeaderIndex(lines) ==
    LET hits == {i \in 1..Len(lines) : StartsWith(lines[i], <<"H", "T">>)}
    IN  IF hits = {} THEN None
        ELSE Some((CHOOSE i \in hits : \A h \in hits : i <= h) + 1)

\* lines 128-138: the point a table row contributes, if any
RowPoint(line) ==
    IF Len(line) < 2 THEN None
    ELSE IF Float(line[1]) = None \/ Float(line[2]) = None THEN None
    ELSE IF Float(line[2])[1] >= MISSING_TEMP THEN None
    ELSE Some(<<Float(line[1])[1], Float(line[2])[1]>>)

\* lines 124-138: the points of the rows from start_idx up to the first blank
\* line or line starting with "$"
RECURSIVE TablePoints(_, _)
TablePoints(lines, i) ==
    IF i > Len(lines) THEN <<>>
    ELSE IF lines[i] = <<>> \/ StartsWith(lines[i], <<"$">>) THEN <<>>
    ELSE IF RowPoint(lines[i]) = None THEN TablePoints(lines, i + 1)
    ELSE <<RowPoint(lines[i])[1]>> \o TablePoints(lines, i + 1)

RECURSIVE InsertByAlt(_, _)
InsertByAlt(sorted, point) ==
    IF sorted = <<>> THEN <<point>>
    ELSE IF point[1] < Head(sorted)[1] THEN <<point>> \o sorted
    ELSE <<Head(sorted)>> \o InsertByAlt(Tail(sorted), point)

\* points.sort(key=lambda x: x[0]), a stable sort
RECURSIVE SortByAlt(_)
SortByAlt(points) ==
    IF points = <<>> THEN <<>>
    ELSE Bind(SortByAlt(SubSeq(points, 1, Len(points) - 1)),
              LAMBDA sorted : InsertByAlt(sorted, points[Len(points)]))

\* no rounding where lines 145 and 1007 round down
Floor100_none(a) == a

\* rounding down where line 144 rounds up
Ceil100_down(a) == (a \div 100) * 100

\* int(math.ceil(a / 100.0) * 100) and int(math.floor(a / 100.0) * 100)
Ceil100(a) == 0 - (((0 - a) \div 100) * 100)

Floor100(a) == (a \div 100) * 100

\* list(range(min_alt, max_alt + 1, 100))
RECURSIVE AltGrid(_, _)
AltGrid(min_alt, max_alt) ==
    IF min_alt > max_alt THEN <<>>
    ELSE <<min_alt>> \o AltGrid(min_alt + 100, max_alt)

Abs(x) == IF x < 0 THEN 0 - x ELSE x

RECURSIVE Pow10(_)
Pow10(n) == IF n = 0 THEN 1 ELSE 10 * Pow10(n - 1)

RECURSIVE Digits(_)
Digits(a) == IF a < 10 THEN 1 ELSE 1 + Digits(a \div 10)

\* the integer nearest to p / q (q > 0), ties to even
RoundDiv(p, q) ==
    LET f == p \div q
        r == p - f * q
    IN  IF 2 * r < q THEN f
        ELSE IF 2 * r > q THEN f + 1
        ELSE IF f % 2 = 0 THEN f ELSE f + 1

\* the float nearest to the exact quotient p / q
flDiv(p, q) ==
    Bind(<<p, q>>,
         LAMBDA pq :
             IF Abs(pq[1]) < pq[2] * Pow10(FloatDigits) THEN RoundDiv(pq[1], pq[2])
             ELSE Bind(Pow10(Digits(Abs(pq[1]) \div pq[2]) - FloatDigits),
                       LAMBDA u : RoundDiv(pq[1], pq[2] * u) * u))

\* the float nearest to the exact value x
fl(x) == flDiv(x, 1)

\* lines 156-159: t0 + (t1 - t0) * (alt - a0) / (a1 - a0), every operation rounded
Interpolate(a0, t0, a1, t1, alt) ==
    IF a1 = a0 THEN t0
    ELSE fl(t0 + flDiv(fl(fl(t1 - t0) * fl(alt - a0)), fl(a1 - a0)))

\* lines 152-153: the segment pointer after its while loop (j counts from 0)
RECURSIVE Advance(_, _, _)
Advance(points, j, alt) ==
    IF j < Len(points) - 2 /\ points[j + 2][1] < alt
    THEN Advance(points, j + 1, alt)
    ELSE j

\* lines 151-160 from grid index k on, with the pointer at j
RECURSIVE Resample(_, _, _, _)
Resample(points, alt_grid, k, j) ==
    IF k > Len(alt_grid) THEN <<>>
    ELSE Bind(Advance(points, j, alt_grid[k]),
              LAMBDA jj :
                  LET p0 == points[jj + 1]
                      p1 == points[jj + 2]
                  IN  <<<<alt_grid[k],
                          Interpolate(p0[1], p0[2], p1[1], p1[2], alt_grid[k])>>>>
                          \o Resample(points, alt_grid, k + 1, jj))

RassError(kind) == [ok |-> FALSE, exc |-> kind, points |-> <<>>]

\* lines 116-147: the sorted points and the grid, or the exception raised
ParsePoints(raw) ==
    IF HeaderIndex(raw) = None THEN RassError("RASS table header not found")
    ELSE Bind(Bind(HeaderIndex(raw), LAMBDA start_idx : TablePoints(raw, start_idx[1])),
              LAMBDA points :
                  IF Len(points) < 2 THEN RassError("Not enough valid RASS points")
                  ELSE Bind(SortByAlt(points),
                            LAMBDA sorted :
                                IF sorted[1][1] = Infinity \/ sorted[Len(sorted)][1] = Infinity
                                THEN RassError("OverflowError")
                                ELSE [ok |-> TRUE, exc |-> "", points |-> sorted]))

GridOf(points) == AltGrid(Ceil100(points[1][1]), Floor100(points[Len(points)][1]))

\* parse_rass(raw): the resampled profile, or the exception raised
parse_rass(raw) ==
    Bind(ParsePoints(raw),
         LAMBDA scan :
             IF ~scan.ok THEN scan
             ELSE Bind(GridOf(scan.points),
                       LAMBDA alt_grid :
                           [ok |-> TRUE, exc |-> "",
                            points |-> Resample(scan.points, alt_grid, 1, 0)]))

\* parse_rass step by step: its locals while it runs
ParseIdle ==
    [pc |-> "idle", raw |-> <<>>, exc |-> "", points |-> <<>>, alt_grid |-> <<>>,
     k |-> 1, j |-> 0, out |-> <<>>]

ParseCallOf(raw) == [ParseIdle EXCEPT !.pc = "call", !.raw = raw]

\* lines 105-147: read the table, sort the points, lay out the grid
ParseScan ==
    /\ parse.pc = "call"
    /\ LET scan == ParsePoints(parse.raw)
       IN  parse' = IF ~scan.ok
                    THEN [parse EXCEPT !.pc = "raised", !.exc = scan.exc]
                    ELSE [parse EXCEPT !.pc = "resample", !.points = scan.points,
                                       !.alt_grid = GridOf(scan.points)]
    /\ UNCHANGED <<mainVars, rass, disk, auxVars>>

\* lines 151-160: one pass of the loop over alt_grid
ParseStep ==
    /\ parse.pc = "resample"
    /\ parse.k <= Len(parse.alt_grid)
    /\ LET alt == parse.alt_grid[parse.k]
           jj == Advance(parse.points, parse.j, alt)
           p0 == parse.points[jj + 1]
           p1 == parse.points[jj + 2]
       IN  parse' = [parse EXCEPT
                        !.j = jj,
                        !.k = @ + 1,
                        !.out = Append(@, <<alt, Interpolate(p0[1], p0[2], p1[1], p1[2], alt)>>)]
    /\ UNCHANGED <<mainVars, rass, disk, auxVars>>

\* line 162
ParseReturn ==
    /\ parse.pc = "resample"
    /\ parse.k > Len(parse.alt_grid)
    /\ parse' = [parse EXCEPT !.pc = "returned"]
    /\ UNCHANGED <<mainVars, rass, disk, auxVars>>

-----------------------------------------------------------------------------
(* Profile retrieval: fetch_text_with_retry (lines 66-77),                 *)
(* latest_rass_candidates (80-101) and load_rass_with_fallback (165-190)   *)
(*                                                                         *)
(*  - A file name sbaYYDDD.HHt is its hour HH: the names of one day sort   *)
(*    as their hours do.                                                   *)
(*  - rass holds the locals of load_rass_with_fallback and of the calls it *)
(*    makes; rass.call is the running (or last) fetch_text_with_retry.     *)
(*  - rass.fetched is the set of candidate files fetch_text was called on. *)
(*  - disk maps each path to its content, None when the file is absent; an *)
(*    output file's content is the run that wrote it.                      *)

RASS_TEXT_PATH == "sba_latest.01t"

OutputPaths ==
    {"sba_wwtemp_chart.svg", "sba_wwtemp_chart_metric.svg", "sba_wwtemp_chart_imperial.svg",
     "madis_recent60_stations.csv", "station_state.json", "station_history.json"}

Max(S) == CHOOSE x \in S : \A y \in S : y <= x

Min(S) == CHOOSE x \in S : \A y \in S : x <= y

\* the files sorted oldest first
RECURSIVE SortDesc_ascending(_)
SortDesc_ascending(S) ==
    IF S = {} THEN <<>>
    ELSE Bind(CHOOSE x \in S : \A y \in S : x <= y,
              LAMBDA oldest : <<oldest>> \o SortDesc_ascending(S \ {oldest}))

\* sorted(set(files), reverse=True)
RECURSIVE SortDesc(_)
SortDesc(S) ==
    IF S = {} THEN <<>>
    ELSE Bind(Max(S), LAMBDA newest : <<newest>> \o SortDesc(S \ {newest}))

\* the whole list, whatever its length
Take_unlimited(seq, n) == seq

\* seq[:n]
Take(seq, n) == SubSeq(seq, 1, IF Len(seq) < n THEN Len(seq) ELSE n)

\* seq[-n:]
Last(seq, n) == SubSeq(seq, IF Len(seq) < n THEN 1 ELSE Len(seq) - n + 1, Len(seq))

\* the name an error or a result is recorded under
Src(kind, file) == [kind |-> kind, file |-> file]

Url(kind, year, doy, file) == [kind |-> kind, year |-> year, doy |-> doy, file |-> file]

\* entry of fetch_text_with_retry(url, retries=...)
NewCall(url, retries) ==
    [url |-> url, retries |-> retries, attempt |-> 0, sleeps |-> 0,
     outcome |-> "running", body |-> <<>>, last_exc |-> None]

\* entry of load_rass_with_fallback: errors = [] and the first listing fetch
RassStart ==
    [pc |-> "root", call |-> NewCall(Url("root", 0, 0, 0), RASS_LIST_RETRIES),
     fetches |-> 0, fetched |-> {}, errors |-> <<>>, year |-> 0, doy |-> 0,
     candidates |-> <<>>, idx |-> 0, result |-> None, detail |-> <<>>]

\* what the server answers to one fetch_text(url)
FetchFailure == [ok |-> FALSE, body |-> <<>>]

FetchSuccess(body) == [ok |-> TRUE, body |-> body]

\* the text of file `file`: its time line, then a table
RassText(file, table) == <<<<Num(file)>>>> \o table

TableGood ==
    <<<<Word(<<"H", "T">>), Word(<<"T">>)>>,
      <<Num(50), Num(15)>>, <<Num(110), Num(400)>>, <<Num(310), Num(300)>>>>

TableNoHeader == <<<<Num(50), Num(15)>>, <<Num(110), Num(400)>>>>

TableNarrow ==
    <<<<Word(<<"H", "T">>), Word(<<"T">>)>>, <<Num(110), Num(400)>>, <<Num(190), Num(300)>>>>

RassTables == {TableGood, TableNoHeader, TableNarrow}

RootListings == {<<>>, <<2025, 2026>>}

YearListings == {<<>>, <<310, 7>>}

DayListings == {<<>>, <<3>>, <<2, 6, 1, 3, 5, 2, 4>>}

Responses(url) ==
    {FetchFailure} \cup
    {FetchSuccess(b) : b \in
        CASE url.kind = "root" -> RootListings
          [] url.kind = "year" -> YearListings
          [] url.kind = "day"  -> DayListings
          [] OTHER -> {RassText(url.file, t) : t \in RassTables}}

\* a retry loop that sleeps after every failed attempt, the last one included
FetchAttempt_sleep_always ==
    /\ pc = "rass"
    /\ rass.call.outcome = "running"
    /\ \E resp \in Responses(rass.call.url) :
        LET c == rass.call
            a == c.attempt + 1
        IN  rass' = [rass EXCEPT
                !.fetches = @ + 1,
                !.fetched = IF c.url.kind = "file" THEN @ \cup {c.url.file} ELSE @,
                !.call = IF resp.ok
                         THEN [c EXCEPT !.attempt = a, !.outcome = "ok", !.body = resp.body]
                         ELSE [c EXCEPT !.attempt = a,
                                        !.last_exc = Some([exc |-> "URLError", attempt |-> a]),
                                        !.sleeps = @ + 1,
                                        !.outcome = IF a < c.retries THEN "running"
                                                    ELSE "raised"]]
    /\ UNCHANGED <<mainVars, parse, disk, auxVars>>

\* lines 68-77: one pass of the retry loop, i.e. one fetch_text and, after a
\* failure that is not the last, the sleep
FetchAttempt ==
    /\ pc = "rass"
    /\ rass.call.outcome = "running"
    /\ \E resp \in Responses(rass.call.url) :
        LET c == rass.call
            a == c.attempt + 1
        IN  rass' = [rass EXCEPT
                !.fetches = @ + 1,
                !.fetched = IF c.url.kind = "file" THEN @ \cup {c.url.file} ELSE @,
                !.call = IF resp.ok
                         THEN [c EXCEPT !.attempt = a, !.outcome = "ok", !.body = resp.body]
                         ELSE [c EXCEPT !.attempt = a,
                                        !.last_exc = Some([exc |-> "URLError", attempt |-> a]),
                                        !.sleeps = IF a < c.retries THEN @ + 1 ELSE @,
                                        !.outcome = IF a < c.retries THEN "running"
                                                    ELSE "raised"]]
    /\ UNCHANGED <<mainVars, parse, disk, auxVars>>

\* line 179: errors.append("directory-listing: ..."), then on to the cache
DiscoveryFailed(exc) ==
    [rass EXCEPT !.errors = Append(@, [what |-> Src("directory-listing", 0), exc |-> exc]),
                 !.pc = "cache"]

\* lines 82-101: a listing has arrived
ListingDone ==
    /\ pc = "rass"
    /\ rass.pc \in {"root", "year", "day"}
    /\ rass.call.outcome = "ok"
    /\ LET entries == rass.call.body
           none == [exc |-> "RuntimeError", attempt |-> 0]
       IN  rass' =
             IF entries = <<>> THEN DiscoveryFailed(none)
             ELSE IF rass.pc = "root"
             THEN [rass EXCEPT !.year = Max(Range(entries)), !.pc = "year",
                               !.call = NewCall(Url("year", Max(Range(entries)), 0, 0),
                                                RASS_LIST_RETRIES)]
             ELSE IF rass.pc = "year"
             THEN [rass EXCEPT !.doy = Max(Range(entries)), !.pc = "day",
                               !.call = NewCall(Url("day", rass.year, Max(Range(entries)), 0),
                                                RASS_LIST_RETRIES)]
             ELSE Bind(Take(SortDesc(Range(entries)), RASS_CANDIDATE_COUNT),
                       LAMBDA candidates :
                      [rass EXCEPT !.candidates = candidates, !.idx = 1, !.pc = "file",
                                   !.call = NewCall(Url("file", rass.year, rass.doy,
                                                        candidates[1]),
                                                    RASS_FILE_RETRIES)])
    /\ UNCHANGED <<mainVars, parse, disk, auxVars>>

\* line 178: a listing fetch has raised
ListingFailed ==
    /\ pc = "rass"
    /\ rass.pc \in {"root", "year", "day"}
    /\ rass.call.outcome = "raised"
    /\ rass' = DiscoveryFailed(rass.call.last_exc[1])
    /\ UNCHANGED <<mainVars, parse, disk, auxVars>>

\* lines 176-177 and the loop of line 169: record the failure, go to the next
\* candidate or, after the last, to the cache
CandidateRejected(exc) ==
    LET r == [rass EXCEPT !.errors = Append(@, [what |-> Src("file", rass.candidates[rass.idx]),
                                                 exc |-> exc])]
    IN  IF rass.idx < Len(rass.candidates)
        THEN [r EXCEPT !.idx = @ + 1,
                       !.call = NewCall(Url("file", rass.year, rass.doy,
                                            rass.candidates[rass.idx + 1]),
                                        RASS_FILE_RETRIES)]
        ELSE [r EXCEPT !.pc = "cache"]

\* main, lines 1158-1162: the profile is there, the primary fetches are submitted
ProfileReturned ==
    /\ pc' = "primary"
    /\ queued' = Range(roster)
    /\ UNCHANGED <<roster, now_utc, running, stations, cwop_targets, cwop_rows,
                   last_good, fetch_failed, reordered>>

\* main, line 1158: load_rass_with_fallback raised
ProfileRaised ==
    /\ pc' = "aborted"
    /\ UNCHANGED <<roster, now_utc, queued, running, stations, cwop_targets, cwop_rows,
                   last_good, fetch_failed, reordered>>

\* a loader that writes the cache file before it parses the text
CandidateFetched_write_first ==
    /\ pc = "rass"
    /\ rass.pc = "file"
    /\ rass.call.outcome = "ok"
    /\ disk' = [disk EXCEPT ![RASS_TEXT_PATH] = Some(rass.call.body)]
    /\ \E parsed \in {parse_rass(rass.call.body)} :
           IF parsed.ok
           THEN /\ rass' = [rass EXCEPT !.pc = "live",
                               !.result = Some([filename |-> Src("file", rass.candidates[rass.idx]),
                                                rass_points |-> parsed.points,
                                                rass_source |-> "live"])]
                /\ ProfileReturned
           ELSE /\ rass' = CandidateRejected([exc |-> parsed.exc, attempt |-> 0])
                /\ UNCHANGED mainVars
    /\ UNCHANGED <<parse, auxVars>>

\* lines 173-175: a candidate's text has arrived
CandidateFetched ==
    /\ pc = "rass"
    /\ rass.pc = "file"
    /\ rass.call.outcome = "ok"
    /\ \E raw_rass \in {rass.call.body}, parsed \in {parse_rass(rass.call.body)} :
           IF parsed.ok
           THEN /\ disk' = [disk EXCEPT ![RASS_TEXT_PATH] = Some(raw_rass)]
                /\ rass' = [rass EXCEPT !.pc = "live",
                               !.result = Some([filename |-> Src("file", rass.candidates[rass.idx]),
                                                rass_points |-> parsed.points,
                                                rass_source |-> "live"])]
                /\ ProfileReturned
           ELSE /\ rass' = CandidateRejected([exc |-> parsed.exc, attempt |-> 0])
                /\ UNCHANGED <<mainVars, disk>>
    /\ UNCHANGED <<parse, auxVars>>

\* line 176: a candidate's fetch has raised
CandidateFailed ==
    /\ pc = "rass"
    /\ rass.pc = "file"
    /\ rass.call.outcome = "raised"
    /\ rass' = CandidateRejected(rass.call.last_exc[1])
    /\ UNCHANGED <<mainVars, parse, disk, auxVars>>

\* lines 189-190
Aggregate(errors) == IF errors = <<>> THEN <<[what |-> Src("unknown", 0), exc |-> [exc |-> "", attempt |-> 0]]>>
    ELSE Last(errors, 4)

\* a fallback that returns the cached file without parsing it again
CacheFallback_unparsed ==
    /\ pc = "rass"
    /\ rass.pc = "cache"
    /\ IF disk[RASS_TEXT_PATH] # None
       THEN /\ rass' = [rass EXCEPT !.pc = "cached",
                           !.result = Some([filename |-> Src(RASS_TEXT_PATH, 0),
                                            rass_points |-> <<>>,
                                            rass_source |-> "cached"])]
            /\ ProfileReturned
       ELSE /\ rass' = [rass EXCEPT !.pc = "raised", !.detail = Aggregate(rass.errors)]
            /\ ProfileRaised
    /\ UNCHANGED <<parse, disk, auxVars>>

\* lines 181-190: the cached raw file, or the aggregate error
CacheFallback ==
    /\ pc = "rass"
    /\ rass.pc = "cache"
    /\ \E exists \in {disk[RASS_TEXT_PATH] # None} :
       \E parsed \in {IF exists THEN parse_rass(disk[RASS_TEXT_PATH][1]) ELSE RassError("")} :
       \E errors \in {IF exists
                      THEN Append(rass.errors, [what |-> Src(RASS_TEXT_PATH, 0),
                                                exc |-> [exc |-> parsed.exc, attempt |-> 0]])
                      ELSE rass.errors} :
           IF exists /\ parsed.ok
           THEN /\ rass' = [rass EXCEPT !.pc = "cached",
                               !.result = Some([filename |-> Src(RASS_TEXT_PATH, 0),
                                                rass_points |-> parsed.points,
                                                rass_source |-> "cached"])]
                /\ ProfileReturned
           ELSE /\ rass' = [rass EXCEPT !.pc = "raised", !.errors = errors,
                                        !.detail = Aggregate(errors)]
                /\ ProfileRaised
    /\ UNCHANGED <<parse, disk, auxVars>>

\* the files the run starts with: the outputs of the previous run, and the
\* cached raw file absent or left there by an earlier run
DiskBefore(cached) ==
    [path \in OutputPaths \cup {RASS_TEXT_PATH} |->
        IF path = RASS_TEXT_PATH THEN cached ELSE Some("previous run")]

CachedBefore == {None} \cup {Some(RassText(0, t)) : t \in RassTables}

\* a load in which every fetch succeeded at once and the day's one file parsed
RassLoaded ==
    [pc |-> "live",
     call |-> [url |-> Url("file", 2026, 310, 3), retries |-> RASS_FILE_RETRIES, attempt |-> 1,
               sleeps |-> 0, outcome |-> "ok", body |-> RassText(3, TableGood),
               last_exc |-> None],
     fetches |-> 4, fetched |-> {3}, errors |-> <<>>, year |-> 2026, doy |-> 310,
     candidates |-> <<3>>, idx |-> 1,
     result |-> Some([filename |-> Src("file", 3),
                      rass_points |-> parse_rass(RassText(3, TableGood)).points,
                      rass_source |-> "live"]),
     detail |-> <<>>]

DiskLoaded == DiskBefore(Some(RassText(3, TableGood)))

-----------------------------------------------------------------------------
(* main, lines 1155-1195 *)

\* order = {station: i for i, station in enumerate(STATIONS)}
order(station_id) == CHOOSE i \in 1..Len(roster) : roster[i] = station_id

RECURSIVE InsertByOrder(_, _)
InsertByOrder(sorted, row) ==
    IF sorted = <<>> THEN <<row>>
    ELSE IF order(row.id) < order(Head(sorted).id) THEN <<row>> \o sorted
    ELSE <<Head(sorted)>> \o InsertByOrder(Tail(sorted), row)

\* the table left in completion order
SortByOrder_omitted(rows) == rows

\* stations.sort(key=lambda r: order[r["id"]]), a stable sort
RECURSIVE SortByOrder(_)
SortByOrder(rows) ==
    IF rows = <<>> THEN <<>>
    ELSE InsertByOrder(SortByOrder(SubSeq(rows, 1, Len(rows) - 1)), rows[Len(rows)])

\* the dicts load_last_good_state can return: any subset of the roster, each
\* station with a normalized payload
LastGoodStates(payloads) ==
    UNION {[S -> payloads] : S \in SUBSET Range(roster)}

InitRun(ids) ==
    /\ roster = ids
    /\ now_utc = MaxAgeMin
    /\ pc = "primary"
    /\ queued = Range(ids)
    /\ running = {}
    /\ stations = <<>>
    /\ cwop_targets = <<>>
    /\ cwop_rows = EmptyMap
    /\ last_good = EmptyMap
    /\ fetch_failed = {}
    /\ reordered = FALSE
    /\ rass = RassLoaded
    /\ parse = ParseIdle
    /\ disk = DiskLoaded
    /\ hist = HistoryIdle
    /\ render = RenderIdle
    /\ observed = NotObserved

\* a pool that starts every submitted task at once
PoolStart_uncapped(stage, s) ==
    /\ pc = stage
    /\ s \in queued
    /\ queued' = queued \ {s}
    /\ running' = running \cup {s}
    /\ UNCHANGED <<roster, now_utc, pc, stations, cwop_targets, cwop_rows,
                   last_good, fetch_failed, reordered, rass, parse, disk, auxVars>>

\* a pool worker takes a submitted task (ThreadPoolExecutor(max_workers=4))
PoolStart(stage, s) ==
    /\ pc = stage
    /\ s \in queued
    /\ Cardinality(running) < MAX_WORKERS
    /\ queued' = queued \ {s}
    /\ running' = running \cup {s}
    /\ UNCHANGED <<roster, now_utc, pc, stations, cwop_targets, cwop_rows,
                   last_good, fetch_failed, reordered, rass, parse, disk, auxVars>>

PrimaryStart(s) == PoolStart("primary", s)

\* fetch_station(s) completes; as_completed hands it to stations.append(fut.result())
PrimaryFinish(s, responses) ==
    /\ pc = "primary"
    /\ s \in running
    /\ \E resp \in responses :
        LET result == fetch_station(s, resp)
        IN  /\ running' = running \ {s}
            /\ fetch_failed' = IF resp.ok THEN fetch_failed
                               ELSE fetch_failed \cup {<<"madis", s>>}
            /\ IF result = Raised
               THEN pc' = "aborted" /\ UNCHANGED stations
               ELSE pc' = pc /\ stations' = Append(stations, result)
    /\ reordered' = (reordered \/ \E i \in 1..Len(stations) : order(stations[i].id) > order(s))
    /\ UNCHANGED <<roster, now_utc, queued, cwop_targets, cwop_rows, last_good,
                   rass, parse, disk, auxVars>>

\* lines 1166-1176: sort, classify, choose and submit the secondary fetches
ClassifyPrimary ==
    /\ pc = "primary"
    /\ queued = {} /\ running = {}
    /\ LET sorted == SortByOrder(stations)
           rows == [i \in 1..Len(sorted) |-> update_age_and_recency(sorted[i], now_utc)]
           targets == SelectSeq(rows, should_try_cwop)
           ids == [i \in 1..Len(targets) |-> targets[i].id]
       IN  /\ stations' = rows
           /\ cwop_targets' = ids
           /\ queued' = Range(ids)
           /\ pc' = IF ids # <<>> THEN "cwop" ELSE "lastgood"
    /\ UNCHANGED <<roster, now_utc, running, cwop_rows, last_good, fetch_failed,
                   reordered, rass, parse, disk, auxVars>>

CwopStart(s) == PoolStart("cwop", s)

\* fetch_station_cwop(s) completes: cwop_rows[cwop["id"]] = cwop
CwopFinish(s, responses) ==
    /\ pc = "cwop"
    /\ s \in running
    /\ \E resp \in responses :
        LET result == fetch_station_cwop(s, resp)
        IN  /\ running' = running \ {s}
            /\ fetch_failed' = IF resp.ok THEN fetch_failed
                               ELSE fetch_failed \cup {<<"cwop", s>>}
            /\ IF result = Raised
               THEN pc' = "aborted" /\ UNCHANGED cwop_rows
               ELSE pc' = pc /\ cwop_rows' = (result.id :> result) @@ cwop_rows
    /\ UNCHANGED <<roster, now_utc, queued, stations, cwop_targets, last_good,
                   reordered, rass, parse, disk, auxVars>>

\* lines 1181-1184, after the pool has been joined
MergeCwop ==
    /\ pc = "cwop"
    /\ queued = {} /\ running = {}
    /\ stations' = [i \in 1..Len(stations) |->
                       IF stations[i].id \in DOMAIN cwop_rows
                       THEN merge_cwop_if_needed(stations[i], cwop_rows[stations[i].id])
                       ELSE stations[i]]
    /\ pc' = "lastgood"
    /\ UNCHANGED <<roster, now_utc, queued, running, cwop_targets, cwop_rows,
                   last_good, fetch_failed, reordered, rass, parse, disk, auxVars>>

\* lines 1186-1193: load the last-good state, fall back on it, classify again
LastGoodStage(payloads) ==
    /\ pc = "lastgood"
    /\ \E raw \in LastGoodStates(payloads) :
        LET loaded == [s \in DOMAIN raw |-> normalize_state_row(s, raw[s])]
            fell == [i \in 1..Len(stations) |->
                        IF stations[i].id \in DOMAIN loaded
                        THEN apply_last_good_fallback(stations[i], loaded[stations[i].id],
                                                      now_utc)
                        ELSE stations[i]]
        IN  /\ last_good' = loaded
            /\ stations' = [i \in 1..Len(fell) |-> update_age_and_recency(fell[i], now_utc)]
    /\ pc' = "output"
    /\ UNCHANGED <<roster, now_utc, queued, running, cwop_targets, cwop_rows, fetch_failed,
                   reordered, rass, parse, disk, auxVars>>

\* a run over the first NumStations stations, feeds on the coarse grid
Init == InitRun(SubSeq(STATIONS, 1, NumStations))

Next ==
    \/ \E s \in Range(roster) : PrimaryStart(s)
    \/ \E s \in Range(roster) : PrimaryFinish(s, CoarseMadisResponses)
    \/ ClassifyPrimary
    \/ \E s \in Range(roster) : CwopStart(s)
    \/ \E s \in Range(roster) : CwopFinish(s, CoarseCwopResponses)
    \/ MergeCwop
    \/ LastGoodStage(CoarseStatePayloads)

Spec == Init /\ [][Next]_vars

\* a run over one station, feeds on the full grid
InitRow == \E s \in {"KC6OYN", "SE068"} : InitRun(<<s>>)

NextRow ==
    \/ \E s \in Range(roster) : PrimaryStart(s)
    \/ \E s \in Range(roster) : PrimaryFinish(s, FullMadisResponses)
    \/ ClassifyPrimary
    \/ \E s \in Range(roster) : CwopStart(s)
    \/ \E s \in Range(roster) : CwopFinish(s, FullCwopResponses)
    \/ MergeCwop
    \/ LastGoodStage(FullStatePayloads)

SpecRow == InitRow /\ [][NextRow]_vars

-----------------------------------------------------------------------------
(* merge_cwop_if_needed on its own: every classified primary row against    *)
(* every secondary row, whether or not main would have fetched one.         *)

InitMerge ==
    \E s \in {"KC6OYN", "SE068"} :
        /\ roster = <<s>>
        /\ now_utc = MaxAgeMin
        /\ pc = "merge_call"
        /\ queued = {}
        /\ running = {}
        /\ \E resp \in FullMadisResponses :
              stations = <<update_age_and_recency(fetch_station(s, resp), now_utc)>>
        /\ cwop_targets = <<s>>
        /\ \E resp \in FullCwopResponses :
              cwop_rows = (s :> fetch_station_cwop(s, resp))
        /\ last_good = EmptyMap
        /\ fetch_failed = {}
        /\ reordered = FALSE
        /\ rass = RassLoaded
        /\ parse = ParseIdle
        /\ disk = DiskLoaded
        /\ hist = HistoryIdle
        /\ render = RenderIdle
        /\ observed = NotObserved

MergeCall ==
    /\ pc = "merge_call"
    /\ stations' = <<merge_cwop_if_needed(stations[1], cwop_rows[stations[1].id])>>
    /\ pc' = "merge_done"
    /\ UNCHANGED <<roster, now_utc, queued, running, cwop_targets, cwop_rows,
                   last_good, fetch_failed, reordered, rass, parse, disk, auxVars>>

NextMerge == MergeCall

SpecMerge == InitMerge /\ [][NextMerge]_vars

-----------------------------------------------------------------------------
(* The whole run: profile retrieval, the station stages over one station    *)
(* whose fetches fail, and the writing of the outputs.                      *)

\* main, lines 1195-1264: draw the charts, then write chart, CSV, state and
\* history files.  draw_svg reads rass_points[0] (line 1001) and raises
\* IndexError on an empty profile, before anything is written.
WriteOutputs ==
    /\ pc = "output"
    /\ IF rass.result[1].rass_points = <<>>
       THEN pc' = "aborted" /\ UNCHANGED disk
       ELSE /\ pc' = "done"
            /\ disk' = [path \in DOMAIN disk |->
                           IF path \in OutputPaths THEN Some("this run") ELSE disk[path]]
    /\ UNCHANGED <<roster, now_utc, queued, running, stations, cwop_targets, cwop_rows,
                   last_good, fetch_failed, reordered, rass, parse, auxVars>>

InitFull ==
    /\ roster = <<"KC6OYN">>
    /\ now_utc = MaxAgeMin
    /\ pc = "rass"
    /\ queued = {}
    /\ running = {}
    /\ stations = <<>>
    /\ cwop_targets = <<>>
    /\ cwop_rows = EmptyMap
    /\ last_good = EmptyMap
    /\ fetch_failed = {}
    /\ reordered = FALSE
    /\ rass = RassStart
    /\ parse = ParseIdle
    /\ \E cached \in CachedBefore : disk = DiskBefore(cached)
    /\ hist = HistoryIdle
    /\ render = RenderIdle
    /\ observed = NotObserved

NextFull ==
    \/ FetchAttempt
    \/ ListingDone
    \/ ListingFailed
    \/ CandidateFetched
    \/ CandidateFailed
    \/ CacheFallback
    \/ \E s \in Range(roster) : PrimaryStart(s)
    \/ \E s \in Range(roster) : PrimaryFinish(s, {MadisError})
    \/ ClassifyPrimary
    \/ \E s \in Range(roster) : CwopStart(s)
    \/ \E s \in Range(roster) : CwopFinish(s, {CwopError})
    \/ MergeCwop
    \/ LastGoodStage(CoarseStatePayloads)
    \/ WriteOutputs

SpecFull == InitFull /\ [][NextFull]_vars

\* every step that can be taken is eventually taken: no fetch attempt hangs
SpecFullFair == SpecFull /\ WF_vars(NextFull)

-----------------------------------------------------------------------------
(* The worker pool: the station stages over PoolStations stations whose     *)
(* fetches fail, so that both stages have more tasks than workers.          *)

InitPool == InitRun(SubSeq(STATIONS, 1, PoolStations))

NextPool ==
    \/ \E s \in Range(roster) : PrimaryStart(s)
    \/ \E s \in Range(roster) : PrimaryFinish(s, {MadisError})
    \/ ClassifyPrimary
    \/ \E s \in Range(roster) : CwopStart(s)
    \/ \E s \in Range(roster) : CwopFinish(s, {CwopError})
    \/ MergeCwop
    \/ LastGoodStage({CHOOSE payload \in CoarseStatePayloads : TRUE})

SpecPool == InitPool /\ [][NextPool]_vars

-----------------------------------------------------------------------------
(* parse_rass on its own, step by step, on every text of the grid           *)

HeaderLine == <<Word(<<"H", "T">>), Word(<<"T">>)>>

\* no header; a header first; a header, indented and with a unit, after a line
\* that looks like a table row
Preambles ==
    {<<>>, <<HeaderLine>>, <<<<Num(20), Num(30)>>, <<Word(<<"H", "T", "k", "m">>)>>>>}

TableRows ==
    {<<Num(50), Num(15)>>,
     <<Num(100), Num(0 - 999)>>,
     <<Num(100), Num(200)>>,
     <<Num(110), Num(400)>>,
     <<Num(190), Num(300)>>,
     <<Num(310), Num(300), Word(<<"x">>)>>,
     <<Num(300), Num(MISSING_TEMP)>>,
     <<Num(320)>>,
     <<Word(<<"x">>), Num(100)>>,
     <<Inf, Num(100)>>,
     <<>>,
     <<Word(<<"$">>)>>}

ParseTexts ==
    {pre \o rows : pre \in Preambles,
                   rows \in UNION {[1..n -> TableRows] : n \in 0..MaxRows}}

InitParse ==
    /\ roster = <<"KC6OYN">>
    /\ now_utc = MaxAgeMin
    /\ pc = "rass"
    /\ queued = {}
    /\ running = {}
    /\ stations = <<>>
    /\ cwop_targets = <<>>
    /\ cwop_rows = EmptyMap
    /\ last_good = EmptyMap
    /\ fetch_failed = {}
    /\ reordered = FALSE
    /\ rass = RassStart
    /\ \E raw \in ParseTexts : parse = ParseCallOf(raw)
    /\ disk = DiskBefore(None)
    /\ hist = HistoryIdle
    /\ render = RenderIdle
    /\ observed = NotObserved

NextParse ==
    \/ ParseScan
    \/ ParseStep
    \/ ParseReturn

SpecParse == InitParse /\ [][NextParse]_vars

-----------------------------------------------------------------------------
(* The run history: prune_history_snapshots (lines 554-570),                *)
(* history_chart_paths (573-583), cleanup_snapshot_files (586-596) and      *)
(* write_station_history (774-842)                                          *)
(*                                                                          *)
(*  - Here a time is a number of seconds: run_at keeps the seconds and the  *)
(*    chart file names (strftime("%Y%m%dT%H%MZ")) drop them.                *)
(*  - A snapshot is [run_at, tag, points, charts]: tag stands for its rass  *)
(*    and stations content (every modelled snapshot has a stations map),    *)
(*    points is the length of rass.points_100m_c, charts is None or the     *)
(*    two paths.                                                            *)
(*  - A path is [dir, stamp, unit]; hist.files is the set of existing svg   *)
(*    files, those of SNAPSHOT_DIR having dir = "snapshots".                *)

SNAPSHOT_DIR == "snapshots"

\* run_dt.strftime("%Y%m%dT%H%MZ")
snapshot_stamp(run_at) == run_at \div 60

ChartPath(dir, run_at, unit) == [dir |-> dir, stamp |-> snapshot_stamp(run_at), unit |-> unit]

\* lines 785-794: the two relative paths write_snapshot_chart_files writes and returns
ChartsOf(run_at) ==
    [metric_svg |-> ChartPath(SNAPSHOT_DIR, run_at, "metric"),
     imperial_svg |-> ChartPath(SNAPSHOT_DIR, run_at, "imperial")]

ChartFiles(charts) == {charts.metric_svg, charts.imperial_svg}

\* sorted(keys)
RECURSIVE SortAsc(_)
SortAsc(S) ==
    IF S = {} THEN <<>>
    ELSE Bind(CHOOSE x \in S : \A y \in S : x <= y,
              LAMBDA first : <<first>> \o SortAsc(S \ {first}))

\* line 563: not (run_dt < cutoff)
InWindow(run_at, now) == run_at >= now - HISTORY_RETENTION_HOURS * 3600

\* a dictionary whose first entry for a key wins
Deduped_first(kept, run_at) ==
    kept[CHOOSE i \in 1..Len(kept) :
            /\ kept[i].run_at = run_at
            /\ \A k \in 1..Len(kept) : kept[k].run_at = run_at => i <= k]

\* line 568: deduped[run_at] after the loop, i.e. the last snapshot stored under the key
Deduped(kept, run_at) ==
    kept[Max({i \in 1..Len(kept) : kept[i].run_at = run_at})]

\* lines 554-570
prune_history_snapshots(snapshots, now) ==
    Bind(SelectSeq(snapshots, LAMBDA snapshot : InWindow(snapshot.run_at, now)),
         LAMBDA kept :
             Bind(SortAsc({kept[i].run_at : i \in 1..Len(kept)}),
                  LAMBDA keys : [k \in 1..Len(keys) |-> Deduped(kept, keys[k])]))

\* lines 573-583: the chart paths under "snapshots/" the snapshots refer to
history_chart_paths(snapshots) ==
    UNION {IF snapshots[i].charts = None THEN {}
           ELSE {path \in ChartFiles(snapshots[i].charts[1]) : path.dir = SNAPSHOT_DIR} :
           i \in 1..Len(snapshots)}

\* a cleanup that unlinks nothing
cleanup_snapshot_files_none(files, keep_rel_paths) == {}

\* lines 586-596: the files cleanup_snapshot_files unlinks
cleanup_snapshot_files(files, keep_rel_paths) ==
    {file_path \in files : file_path.dir = SNAPSHOT_DIR /\ file_path \notin keep_rel_paths}

\* lines 637-645: build_snapshot_svgs returns None without two profile points
Rebuildable(snapshot) == snapshot.points >= 2

\* a loop that rebuilds the charts of every snapshot it can
ChartsOk_never(snapshot, files) == FALSE

\* lines 819-825: both chart paths are there and their files exist
ChartsOk(snapshot, files) ==
    /\ snapshot.charts # None
    /\ ChartFiles(snapshot.charts[1]) \subseteq files

\* lines 818-833: the loop over the pruned history from index i on; it returns
\* the history and the files it leaves
RECURSIVE RebuildCharts(_, _, _)
RebuildCharts(history, i, files) ==
    IF i > Len(history) THEN [history |-> history, files |-> files]
    ELSE IF ChartsOk(history[i], files) \/ ~Rebuildable(history[i])
    THEN RebuildCharts(history, i + 1, files)
    ELSE Bind([history EXCEPT ![i].charts = Some(ChartsOf(history[i].run_at))],
              LAMBDA rebuilt :
                  Bind(files \cup ChartFiles(ChartsOf(history[i].run_at)),
                       LAMBDA written : RebuildCharts(rebuilt, i + 1, written)))

\* lines 799-814: the snapshot of the current run
CurrentSnapshot(now, tag, points) ==
    [run_at |-> now, tag |-> tag, points |-> points, charts |-> Some(ChartsOf(now))]

HistoryCall(now, loaded, files) ==
    [pc |-> "call", now_utc |-> now, loaded |-> loaded, files |-> files,
     history |-> <<>>, removed |-> {}]

\* lines 774-842, write_station_history as a whole: hist.history is what it
\* writes to HISTORY_PATH, hist.removed the files its cleanup unlinks
WriteStationHistory ==
    /\ hist.pc = "call"
    /\ \E tag \in {"now"}, points \in {3} :
       \E pruned \in {prune_history_snapshots(
                           Append(hist.loaded, CurrentSnapshot(hist.now_utc, tag, points)),
                           hist.now_utc)} :
       \E built \in {RebuildCharts(pruned, 1,
                                   hist.files \cup ChartFiles(ChartsOf(hist.now_utc)))} :
       \E removed \in {cleanup_snapshot_files(built.files,
                                              history_chart_paths(built.history))} :
           hist' = [hist EXCEPT !.pc = "done",
                                !.history = built.history,
                                !.files = built.files \ removed,
                                !.removed = removed]
    /\ UNCHANGED <<mainVars, rass, parse, disk, render, observed>>

\* the reference time, two minutes past the retention span
HistoryNow == HISTORY_RETENTION_HOURS * 3600 + 120

\* run times: just older than the window, at its edge, two in one minute of
\* the last hour, and the current run's
RunTimes == {HistoryNow - HISTORY_RETENTION_HOURS * 3600 - 1,
             HistoryNow - HISTORY_RETENTION_HOURS * 3600,
             HistoryNow - 60, HistoryNow - 30, HistoryNow}

\* the charts of a loaded snapshot: none, the files of its own minute, or
\* paths outside the snapshot directory
LoadedCharts(run_at) ==
    [none |-> None,
     own |-> Some(ChartsOf(run_at)),
     legacy |-> Some([metric_svg |-> ChartPath("charts", run_at, "metric"),
                      imperial_svg |-> ChartPath("charts", run_at, "imperial")])]

LoadedSnapshots ==
    {[run_at |-> t, tag |-> v[1], points |-> v[2], charts |-> LoadedCharts(t)[v[3]]] :
        t \in RunTimes,
        v \in {<<"a", 2, "own">>, <<"b", 2, "own">>, <<"a", 2, "none">>,
               <<"b", 1, "none">>, <<"a", 2, "legacy">>}}

LoadedHistories == UNION {[1..n -> LoadedSnapshots] : n \in 0..MaxSnapshots}

\* a chart file no snapshot refers to
OrphanFile == [dir |-> SNAPSHOT_DIR, stamp |-> 7, unit |-> "metric"]

\* the chart files before the call: none, those the loaded history refers
\* to, the same with a stray file, or only the metric ones and a stray file
FilesBefore(loaded) ==
    LET referenced == UNION {IF loaded[i].charts = None THEN {}
                             ELSE ChartFiles(loaded[i].charts[1]) : i \in 1..Len(loaded)}
    IN  {{}, referenced, referenced \cup {OrphanFile},
         {f \in referenced : f.unit = "metric"} \cup {OrphanFile}}

InitHistory ==
    /\ roster = <<"KC6OYN">>
    /\ now_utc = MaxAgeMin
    /\ pc = "output"
    /\ queued = {}
    /\ running = {}
    /\ stations = <<>>
    /\ cwop_targets = <<>>
    /\ cwop_rows = EmptyMap
    /\ last_good = EmptyMap
    /\ fetch_failed = {}
    /\ reordered = FALSE
    /\ rass = RassLoaded
    /\ parse = ParseIdle
    /\ disk = DiskLoaded
    /\ \E loaded \in LoadedHistories : \E files \in FilesBefore(loaded) :
           hist = HistoryCall(HistoryNow, loaded, files)
    /\ render = RenderIdle
    /\ observed = NotObserved

NextHistory == WriteStationHistory

SpecHistory == InitHistory /\ [][NextHistory]_vars

-----------------------------------------------------------------------------
(* The history over a sequence of runs: load_station_history (lines         *)
(* 536-551) reads what an earlier run wrote, from the deployed URL or from  *)
(* HISTORY_PATH.  Between two runs the written document may or may not have *)
(* been published at the URL, and the workspace (HISTORY_PATH and the       *)
(* snapshot directory) may or may not have been kept.                       *)
(*                                                                          *)
(*  - A document is [json, snapshots]: whether the text parses as JSON and  *)
(*    the list under "snapshots".  Every                                   *)
(*    snapshot of a document the program wrote has a run_at that parses, so *)
(*    parse_history_payload drops none of them.                             *)
(*  - hist.deployed is the document at the URL, hist.local the one in       *)
(*    HISTORY_PATH (None when the file is missing), hist.previous the       *)
(*    history the run before wrote.                                         *)

MaxHistoryRuns == 3

NotJson == [json |-> FALSE, snapshots |-> <<>>]

\* lines 835-841: the document json.dumps writes
Document(snapshots) == [json |-> TRUE, snapshots |-> snapshots]

\* lines 492-515
parse_history_payload(text) == IF text.json THEN text.snapshots ELSE <<>>

\* lines 536-551: remote is None when fetch_text raised, local is None when
\* HISTORY_PATH does not exist
load_station_history(remote, local) ==
    IF remote # None /\ parse_history_payload(remote[1]) # <<>>
    THEN parse_history_payload(remote[1])
    ELSE IF local # None /\ parse_history_payload(local[1]) # <<>>
    THEN parse_history_payload(local[1])
    ELSE <<>>

\* lines 796-842 for a loaded history: the history written, the files left
\* and the files unlinked
write_station_history(now, loaded, files) ==
    Bind(RebuildCharts(prune_history_snapshots(Append(loaded, CurrentSnapshot(now, "now", 3)),
                                               now),
                       1, files \cup ChartFiles(ChartsOf(now))),
         LAMBDA built :
             Bind(cleanup_snapshot_files(built.files, history_chart_paths(built.history)),
                  LAMBDA removed : [history |-> built.history,
                                    files |-> built.files \ removed,
                                    removed |-> removed]))

\* seconds between two runs: half a minute, an hour, more than a day
HistoryGaps == {30, 3600, 100000}

NoHistoryYet ==
    [pc |-> "runs", runs |-> 0, now_utc |-> HistoryNow, loaded |-> <<>>, files |-> {},
     history |-> <<>>, removed |-> {}, deployed |-> NotJson, local |-> None,
     previous |-> <<>>]

\* one run's write_station_history, and whether its document is published
HistoryRun ==
    /\ hist.pc = "runs"
    /\ hist.runs < MaxHistoryRuns
    /\ \E gap \in HistoryGaps, fetched \in BOOLEAN, kept \in BOOLEAN, published \in BOOLEAN :
       \E now \in {hist.now_utc + gap} :
       \E loaded \in {load_station_history(IF fetched THEN Some(hist.deployed) ELSE None,
                                           IF kept THEN hist.local ELSE None)} :
       \E out \in {write_station_history(now, loaded, IF kept THEN hist.files ELSE {})} :
           hist' = [pc |-> "runs",
                    runs |-> hist.runs + 1,
                    now_utc |-> now,
                    loaded |-> loaded,
                    files |-> out.files,
                    history |-> out.history,
                    removed |-> out.removed,
                    deployed |-> IF published THEN Document(out.history) ELSE hist.deployed,
                    local |-> Some(Document(out.history)),
                    previous |-> hist.history]
    /\ UNCHANGED <<mainVars, rass, parse, disk, render, observed>>

InitHistoryRuns ==
    /\ roster = <<"KC6OYN">>
    /\ now_utc = MaxAgeMin
    /\ pc = "output"
    /\ queued = {}
    /\ running = {}
    /\ stations = <<>>
    /\ cwop_targets = <<>>
    /\ cwop_rows = EmptyMap
    /\ last_good = EmptyMap
    /\ fetch_failed = {}
    /\ reordered = FALSE
    /\ rass = RassLoaded
    /\ parse = ParseIdle
    /\ disk = DiskLoaded
    /\ hist = NoHistoryYet
    /\ render = RenderIdle
    /\ observed = NotObserved

NextHistoryRuns == HistoryRun

SpecHistoryRuns == InitHistoryRuns /\ [][NextHistoryRuns]_vars

-----------------------------------------------------------------------------
(* The chart helpers: wind_barb_svg (lines 897-953) and, in draw_svg, the    *)
(* altitude domain (1006-1010) and the label placement (1101-1116)          *)
(*                                                                          *)
(*  - Altitudes and pixel positions are integers; a wind speed is in        *)
(*    hundredths of m/s, a direction in degrees.                            *)
(*  - The glyph wind_barb_svg returns is the count of its elements.         *)
(*  - render holds one call: the function, its arguments, its result.       *)

\* a barb speed that is cut down to the multiple of 5 below
barb_speed_down(wind_spd_mps) ==
    IF wind_spd_mps < 0 THEN 0 ELSE 5 * ((wind_spd_mps * KTS_PER_MPS) \div 50000000)

\* lines 902-903: int(5 * round(max(0.0, wind_spd_mps * KTS_PER_MPS) / 5.0)),
\* round() taking a tie to the even neighbour
barb_speed(wind_spd_mps) ==
    IF wind_spd_mps < 0 THEN 0 ELSE 5 * RoundDiv(wind_spd_mps * KTS_PER_MPS, 50000000)

\* the passes of "while remaining >= unit: ...; remaining -= unit"
RECURSIVE Passes(_, _)
Passes(remaining, unit) ==
    IF remaining >= unit THEN 1 + Passes(remaining - unit, unit) ELSE 0

NoGlyph == [circle |-> 0, shaft |-> 0, flags |-> 0, feathers |-> 0, half |-> 0]

\* lines 897-953: what wind_barb_svg draws
wind_barb_svg(wind_dir_deg, wind_spd_mps) ==
    IF wind_dir_deg = None \/ wind_spd_mps = None THEN NoGlyph
    ELSE Bind(barb_speed(wind_spd_mps[1]),
              LAMBDA rounded :
                  IF rounded <= 0 THEN [NoGlyph EXCEPT !.circle = 1]
                  ELSE Bind(Passes(rounded, 50),
                            LAMBDA flags :
                                Bind(Passes(rounded - 50 * flags, 10),
                                     LAMBDA feathers :
                                         [circle |-> 0, shaft |-> 1, flags |-> flags,
                                          feathers |-> feathers,
                                          half |-> IF rounded - 50 * flags - 10 * feathers >= 5
                                                   THEN 1 ELSE 0])))

\* lines 1006-1010: <<y_min, y_max>> for a profile sorted by altitude and the
\* elevations of the plotted stations
AltitudeDomain(rass_points, station_alts) ==
    Bind(<<IF station_alts # <<>>
           THEN Floor100(Min({0, rass_points[1][1]} \cup Range(station_alts)))
           ELSE 0,
           IF station_alts # <<>>
           THEN Ceil100(Max({rass_points[Len(rass_points)][1]} \cup Range(station_alts)))
           ELSE rass_points[Len(rass_points)][1]>>,
         LAMBDA y : IF y[2] <= y[1] THEN <<y[1], y[1] + 100>> ELSE y)

\* line 1115: max(margin_top + 10, min(height - margin_bottom - 4, label_y))
Clamp(label_y) ==
    IF label_y > height - margin_bottom - 4 THEN height - margin_bottom - 4
    ELSE IF label_y < margin_top + 10 THEN margin_top + 10
    ELSE label_y

\* lines 1110-1114: the loop "for _ in range(30)" with `attempts` passes left
RECURSIVE Shift(_, _, _)
Shift(label_y, placed_ys, attempts) ==
    IF attempts = 0 THEN label_y
    ELSE IF \A k \in 1..Len(placed_ys) : Abs(label_y - placed_ys[k]) >= 12 THEN label_y
    ELSE Shift(label_y + 12, placed_ys, attempts - 1)

\* lines 1101-1116: placed_ys after the stations from index i on
RECURSIVE PlaceLabels(_, _, _)
PlaceLabels(y_pxs, i, placed_ys) ==
    IF i > Len(y_pxs) THEN placed_ys
    ELSE Bind(Clamp(Shift(y_pxs[i], placed_ys, 30)),
              LAMBDA label_y : PlaceLabels(y_pxs, i + 1, Append(placed_ys, label_y)))

RenderCall(fn, args) == [pc |-> "call", fn |-> fn, args |-> args, result |-> None]

DrawWindBarb ==
    /\ render.pc = "call"
    /\ render.fn = "wind_barb_svg"
    /\ render' = [render EXCEPT !.pc = "returned",
                      !.result = Some(wind_barb_svg(render.args.wind_dir_deg,
                                                    render.args.wind_spd_mps))]
    /\ UNCHANGED <<mainVars, rass, parse, disk, hist, observed>>

DrawAltitudeDomain ==
    /\ render.pc = "call"
    /\ render.fn = "altitude_domain"
    /\ render' = [render EXCEPT !.pc = "returned",
                      !.result = Some(AltitudeDomain(render.args.rass_points,
                                                     render.args.station_alts))]
    /\ UNCHANGED <<mainVars, rass, parse, disk, hist, observed>>

DrawLabels ==
    /\ render.pc = "call"
    /\ render.fn = "labels"
    /\ render' = [render EXCEPT !.pc = "returned",
                      !.result = Some(PlaceLabels(render.args.y_pxs, 1, <<>>))]
    /\ UNCHANGED <<mainVars, rass, parse, disk, hist, observed>>

\* wind speeds in hundredths of m/s: below zero, calm, 3, 7, 8, 27, 52, 97 and
\* 110 knots and speeds between
WindSpeeds == {0 - 100, 0, 100, 154, 360, 412, 800, 1389, 2000, 2675, 3100, 4990, 5659}

WindDirections == {0, 225, 360}

\* profiles sorted by altitude: from above or below zero, over more or less
\* than 100 units, of one point, at or off the multiples of 100
Profiles ==
    {<<<<100, 15>>, <<200, 14>>, <<300, 13>>>>, <<<<0, 15>>, <<1000, 9>>>>,
     <<<<328, 59>>, <<656, 57>>>>, <<<<200, 12>>>>, <<<<0, 15>>>>,
     <<<<0 - 200, 15>>, <<0 - 100, 14>>>>, <<<<30, 15>>, <<60, 14>>>>}

Elevations == {0 - 20, 0, 3, 100, 250, 1201}

\* marker positions from the top of the plot to its bottom
MarkerPixels == {50, 55, 62, 300, 306, 500, 506, 510}

UpTo(S, n) == UNION {[1..k -> S] : k \in 0..n}

RenderCalls ==
    {RenderCall("wind_barb_svg", [wind_dir_deg |-> d, wind_spd_mps |-> v]) :
        d \in {None} \cup {Some(x) : x \in WindDirections},
        v \in {None} \cup {Some(x) : x \in WindSpeeds}}
    \cup {RenderCall("altitude_domain", [rass_points |-> p, station_alts |-> a]) :
             p \in Profiles, a \in UpTo(Elevations, 2)}
    \cup {RenderCall("labels", [y_pxs |-> y]) : y \in UpTo(MarkerPixels, MaxPlotted)}

InitRender ==
    /\ roster = <<"KC6OYN">>
    /\ now_utc = MaxAgeMin
    /\ pc = "output"
    /\ queued = {}
    /\ running = {}
    /\ stations = <<>>
    /\ cwop_targets = <<>>
    /\ cwop_rows = EmptyMap
    /\ last_good = EmptyMap
    /\ fetch_failed = {}
    /\ reordered = FALSE
    /\ rass = RassLoaded
    /\ parse = ParseIdle
    /\ disk = DiskLoaded
    /\ hist = HistoryIdle
    /\ render \in RenderCalls
    /\ observed = NotObserved

NextRender ==
    \/ DrawWindBarb
    \/ DrawAltitudeDomain
    \/ DrawLabels

SpecRender == InitRender /\ [][NextRender]_vars

-----------------------------------------------------------------------------
(* A sequence of runs of main for one station, lines 1155-1254, in which    *)
(* the state document a run writes (write_station_state, lines 764-771) is  *)
(* what the next run loads as its last-good state (lines 518-533).  A run   *)
(* that aborts writes nothing and is the same as a longer gap between runs. *)
(*                                                                         *)
(* observed.state is the state document between two runs.  observed.when   *)
(* is the history of the values in it: for the temperature the observation *)
(* time the feed gave with it, for the dewpoint, the gust and the          *)
(* direction the time of the run that fetched the value from a feed (its   *)
(* observation is not later than that).  observed.adopted are the fields    *)
(* the latest run took from the cache.                                      *)

MaxRuns == 3

\* minutes between two runs
RunGaps == {30, 60}

RunStation == STATIONS[1]

CachedFields == {"temp_c", "dew_c", "wind_gust_mps", "wind_dir"}

station_payload(row) == [k \in {"id", "name"} \cup ObsKeys |-> Get(row, k)]

MadisAt(t, v) == Some([ob_time |-> t, val |-> v, provider |-> <<"MADIS">>])

\* what the primary feed answers at a run: nothing, everything, the
\* temperature alone, temperature and wind speed without dewpoint, gust and
\* direction, or a temperature that is already 30 minutes old
LiveMadisResponses(now) ==
    {MadisError,
     [ok |-> TRUE, any_elev |-> Some(30000), T |-> MadisAt(now, 28815),
      TD |-> MadisAt(now, 28315), DD |-> MadisAt(now, 270), FF |-> MadisAt(now, 500),
      FFGUST |-> MadisAt(now, 900)],
     [ok |-> TRUE, any_elev |-> Some(30000), T |-> MadisAt(now, 28915),
      TD |-> None, DD |-> None, FF |-> MadisAt(now, 400), FFGUST |-> None],
     [ok |-> TRUE, any_elev |-> Some(30000), T |-> MadisAt(now - 30, 28715),
      TD |-> None, DD |-> None, FF |-> None, FFGUST |-> None]}

\* what the secondary feed answers: nothing, or a temperature without humidity
LiveCwopResponses(now) ==
    {CwopError,
     [ok |-> TRUE,
      report |-> Some([timeReceived |-> now, temperature |-> Some(6800), humidity |-> None,
                       windDirection |-> None, windSpeed |-> None, windGust |-> None])]}

\* lines 1160-1184: the row of the feeds, before the cache is consulted
LiveRow(station_id, now, madis, cwop) ==
    Bind(update_age_and_recency(fetch_station(station_id, madis), now),
         LAMBDA row : IF should_try_cwop(row)
                      THEN merge_cwop_if_needed(row, fetch_station_cwop(station_id, cwop))
                      ELSE row)

\* lines 1186-1193: the row after the fallback and the second classification
FinalRow(live, loaded, now) ==
    IF live.id \in DOMAIN loaded
    THEN update_age_and_recency(apply_last_good_fallback(live, loaded[live.id], now), now)
    ELSE update_age_and_recency(live, now)

\* the fields of the final row that the feeds did not give
Adopted(live, final) == {k \in CachedFields : Get(live, k) = None /\ Get(final, k) # None}

ObservedWhen(live, final, now, when) ==
    [k \in CachedFields |->
        IF Get(live, k) # None
        THEN IF k = "temp_c" THEN Get(live, "temp_ob_time") ELSE Some(now)
        ELSE IF Get(final, k) # None THEN when[k]
        ELSE None]

NoRunYet ==
    [pc |-> "runs", runs |-> 0, state |-> EmptyMap,
     when |-> [k \in CachedFields |-> None], adopted |-> {}, live |-> None]

RunMain ==
    /\ observed.pc = "runs"
    /\ observed.runs < MaxRuns
    /\ \E gap \in RunGaps :
       \E now \in {now_utc + gap} :
       \E madis \in LiveMadisResponses(now), cwop \in LiveCwopResponses(now) :
       \E live \in {LiveRow(RunStation, now, madis, cwop)} :
       \E loaded \in {[s \in DOMAIN observed.state |->
                          normalize_state_row(s, observed.state[s])]} :
       \E final \in {FinalRow(live, loaded, now)} :
          /\ now_utc' = now
          /\ last_good' = loaded
          /\ stations' = <<final>>
          /\ observed' = [pc |-> "runs",
                          runs |-> observed.runs + 1,
                          state |-> [s \in {final.id} |-> station_payload(final)],
                          when |-> ObservedWhen(live, final, now, observed.when),
                          adopted |-> Adopted(live, final),
                          live |-> Some(live)]
    /\ UNCHANGED <<roster, pc, queued, running, cwop_targets, cwop_rows, fetch_failed,
                   reordered, rass, parse, disk, hist, render>>

InitRuns ==
    /\ roster = <<RunStation>>
    /\ now_utc = MaxAgeMin
    /\ pc = "done"
    /\ queued = {}
    /\ running = {}
    /\ stations = <<>>
    /\ cwop_targets = <<>>
    /\ cwop_rows = EmptyMap
    /\ last_good = EmptyMap
    /\ fetch_failed = {}
    /\ reordered = FALSE
    /\ rass = RassLoaded
    /\ parse = ParseIdle
    /\ disk = DiskLoaded
    /\ hist = HistoryIdle
    /\ render = RenderIdle
    /\ observed = NoRunYet

NextRuns == RunMain

SpecRuns == InitRuns /\ [][NextRuns]_vars

-----------------------------------------------------------------------------
(* Vocabulary of the properties *)

Rows == 1..Len(stations)

\* the nine observation fields of a row
Data(row) == [k \in ObsKeys |-> Get(row, k)]

\* the temperature observation time parses and lies at most `limit` minutes before now
ObservedWithin(iso_time, limit) ==
    iso_time # None /\ iso_time[1] # BadTime /\ now_utc - iso_time[1] <= limit

\* recent and age_min are what temp_ob_time and now give
RecencyCurrent(row) ==
    /\ Get(row, "recent") = Some(ObservedWithin(row.temp_ob_time, RECENT_MAX_AGE_MIN))
    /\ Get(row, "age_min") = IF row.temp_ob_time # None /\ row.temp_ob_time[1] # BadTime
                             THEN Some(now_utc - row.temp_ob_time[1])
                             ELSE None

\* a primary row with a defined temperature and recent == true
RecentWithTemp(row) == Get(row, "temp_c") # None /\ Get(row, "recent") = Some(TRUE)

TagCount(provider) ==
    IF provider = None THEN 0
    ELSE Cardinality({i \in 1..Len(provider[1]) : provider[1][i] = LAST_GOOD_TAG})

\* the step of main that runs apply_last_good_fallback over the table
FallbackStep == pc = "lastgood" /\ pc' = "output"

\* the cached row of station i in the state the step loaded, if any
HasCached(i) == stations[i].id \in DOMAIN last_good'
Cached(i) == last_good'[stations[i].id]

-----------------------------------------------------------------------------
\* C1 (as stated): a primary row with a defined temperature and recent == true
\* has every field unchanged by the secondary merge and by
\* apply_last_good_fallback.
C1_RecentRowUntouched ==
    [][\A i \in Rows :
          (i <= Len(stations') /\ RecentWithTemp(stations[i]))
              => Data(stations'[i]) = Data(stations[i])]_vars

\* C1 (amended): for such a row the secondary merge changes no field, and
\* apply_last_good_fallback changes no field that is present, apart from
\* tagging the provider and from replacing the wind observation time when it
\* fills an absent wind speed; absent fields may be filled from the cache.
C1_RecentRowKeepsPresentFields ==
    [][\A i \in Rows :
          (i <= Len(stations') /\ RecentWithTemp(stations[i])) =>
              LET r == stations[i]
                  r2 == stations'[i]
              IN  /\ ~FallbackStep => Data(r2) = Data(r)
                  /\ \A k \in ObsKeys \ {"provider", "wind_ob_time"} :
                        r[k] # None => r2[k] = r[k]
                  /\ r.wind_spd_mps # None => r2.wind_ob_time = r.wind_ob_time
                  /\ TruthyStr(r.provider) =>
                        r2.provider \in {r.provider, Some(Append(r.provider[1], LAST_GOOD_TAG))}]_vars

\* a recent MADIS row went through both stages and had its dewpoint filled
\* from the cache
C1_Witness ==
    /\ pc = "output"
    /\ \E i \in Rows :
          /\ stations[i].temp_c = Some(1500)
          /\ stations[i].recent = Some(TRUE)
          /\ stations[i].dew_c = Some(777)
          /\ stations[i].provider = Some(<<"MADIS", LAST_GOOD_TAG>>)

-----------------------------------------------------------------------------
\* C2: when the reconciled rows are consumed, recent is true iff the
\* temperature observation time is defined and at most 60 minutes before now,
\* and age_min is that age (undefined without a usable time).
C2_RecentIffWithin60 ==
    pc = "output" =>
        \A i \in Rows :
            LET r == stations[i]
                t == r.temp_ob_time
                usable == t # None /\ t[1] # BadTime
            IN  /\ r.recent = Some(TRUE) <=> (usable /\ now_utc - t[1] <= RECENT_MAX_AGE_MIN)
                /\ r.recent \in {Some(TRUE), Some(FALSE)}
                /\ usable => r.age_min = Some(now_utc - t[1])
                /\ ~usable => r.age_min = None /\ r.recent = Some(FALSE)

\* a row exactly 60 minutes old is consumed as recent
C2_Witness ==
    /\ pc = "output"
    /\ \E i \in Rows :
          stations[i].age_min = Some(RECENT_MAX_AGE_MIN) /\ stations[i].recent = Some(TRUE)

-----------------------------------------------------------------------------
\* C3: apply_last_good_fallback adopts a cached temperature or dewpoint only
\* if the cached temperature time is at most 90 minutes old, and a cached wind
\* speed, gust or direction only if the cached wind time is; an absent field
\* whose group passes the test is filled; elevation is filled regardless.
C3_GraceGatesAdoption ==
    [][FallbackStep =>
        \A i \in Rows :
            LET r == stations[i]
                r2 == stations'[i]
                tempOk == HasCached(i) /\ ObservedWithin(Cached(i).temp_ob_time, LAST_GOOD_GRACE_MIN)
                windOk == HasCached(i) /\ ObservedWithin(Cached(i).wind_ob_time, LAST_GOOD_GRACE_MIN)
            IN  /\ \A k \in {"temp_c", "dew_c"} :
                      /\ r2[k] # r[k] => tempOk /\ r2[k] = Cached(i)[k]
                      /\ (tempOk /\ r[k] = None /\ Cached(i)[k] # None) => r2[k] = Cached(i)[k]
                /\ \A k \in {"wind_spd_mps", "wind_gust_mps", "wind_dir"} :
                      /\ r2[k] # r[k] => windOk /\ r2[k] = Cached(i)[k]
                      /\ (windOk /\ r[k] = None /\ Cached(i)[k] # None) => r2[k] = Cached(i)[k]
                /\ (HasCached(i) /\ r.elev_m = None) => r2.elev_m = Cached(i).elev_m]_vars

\* a temperature cached exactly 90 minutes ago was adopted while the cached
\* wind, older than that, was not, and the elevation came from the cache
C3_Witness ==
    /\ pc = "output"
    /\ \E i \in Rows :
          /\ stations[i].id \in DOMAIN last_good
          /\ stations[i].temp_c = Some(1234)
          /\ stations[i].age_min = Some(LAST_GOOD_GRACE_MIN)
          /\ stations[i].wind_spd_mps = None
          /\ last_good[stations[i].id].wind_spd_mps # None
          /\ stations[i].elev_m = Some(45000)

-----------------------------------------------------------------------------
\* C4: apply_last_good_fallback leaves every observation value and time that
\* is present before the call unchanged.  (The provider label, which the
\* function tags on purpose, is left out of the statement.)
C4_PresentFieldsKept ==
    [][FallbackStep =>
        \A i \in Rows : \A k \in ObsKeys \ {"provider"} :
            stations[i][k] # None => stations'[i][k] = stations[i][k]]_vars

-----------------------------------------------------------------------------
\* C5: whenever apply_last_good_fallback fills a temperature, dewpoint or wind
\* field from the cached row, the provider of the returned row carries the
\* "(last-good)" suffix exactly once.
C5_FilledImpliesTagged ==
    [][FallbackStep =>
        \A i \in Rows :
            (\E k \in {"temp_c", "dew_c", "wind_spd_mps", "wind_gust_mps", "wind_dir"} :
                stations'[i][k] # stations[i][k])
            => TagCount(stations'[i].provider) = 1]_vars

-----------------------------------------------------------------------------
\* C6: applying apply_last_good_fallback again, with the same cached row and
\* now, to a row it has produced returns that row, and no provider carries
\* "(last-good)" more than once.
C6_FallbackIdempotent ==
    pc = "output" =>
        \A i \in Rows :
            /\ TagCount(stations[i].provider) <= 1
            /\ stations[i].id \in DOMAIN last_good =>
                  apply_last_good_fallback(stations[i], last_good[stations[i].id], now_utc)
                      = stations[i]

\* a dewpoint was filled from a cached row whose provider was already tagged
C6_Witness ==
    /\ pc = "output"
    /\ \E i \in Rows :
          /\ stations[i].id \in DOMAIN last_good
          /\ stations[i].dew_c = Some(777)
          /\ TagCount(last_good[stations[i].id].provider) = 1
          /\ TagCount(stations[i].provider) = 1

-----------------------------------------------------------------------------
\* C7: merge_cwop_if_needed(p, s) is p when s has no temperature or p has a
\* recent temperature; otherwise it is p with each of the seven merge fields
\* taken from s where s supplies one, elevation from s only where p has none,
\* and the provider of s when s has a temperature time.
C7_MergeRule ==
    [][pc = "merge_call" =>
        LET p == stations[1]
            s == cwop_rows[p.id]
            m == stations'[1]
        IN  IF s.temp_c = None \/ (p.temp_c # None /\ p.recent = Some(TRUE))
            THEN m = p
            ELSE /\ \A k \in {"temp_c", "dew_c", "temp_ob_time", "wind_dir",
                              "wind_spd_mps", "wind_gust_mps", "wind_ob_time"} :
                        m[k] = IF s[k] # None THEN s[k] ELSE p[k]
                 /\ m.elev_m = IF p.elev_m = None THEN s.elev_m ELSE p.elev_m
                 /\ m.provider = IF s.temp_ob_time # None THEN s.provider ELSE p.provider
                 /\ \A k \in {"id", "name", "recent", "age_min"} : m[k] = p[k]]_vars

\* a stale MADIS row took the CWOP temperature and wind speed and kept its own
\* dewpoint, wind direction and elevation
C7_Witness ==
    /\ pc = "merge_done"
    /\ stations[1].temp_c = Some(2000)
    /\ stations[1].provider = Some(CWOP_LABEL)
    /\ stations[1].dew_c = Some(1000)
    /\ stations[1].wind_dir = Some(270)
    /\ stations[1].wind_spd_mps = Some(447)
    /\ stations[1].elev_m = Some(30000)
    /\ cwop_rows[stations[1].id].elev_m # None

-----------------------------------------------------------------------------
\* the secondary lookup is due: no temperature, or none observed within 60 minutes
NeedsSecondary(row) ==
    row.temp_c = None \/ ~ObservedWithin(row.temp_ob_time, RECENT_MAX_AGE_MIN)

\* C8: a secondary fetch is issued for a station iff, once the primary stage
\* is classified, its temperature is missing or its row is not recent; only
\* those fetches run, each has returned when the merge runs, and the merge
\* leaves the row of every other station unchanged.
C8_SecondaryIffNeeded ==
    [][/\ (pc = "primary" /\ pc' \in {"cwop", "lastgood"}) =>
            /\ Range(cwop_targets') = {stations'[i].id : i \in {j \in 1..Len(stations') :
                                                                NeedsSecondary(stations'[j])}}
            /\ queued' = Range(cwop_targets')
       /\ pc = "cwop" =>
            /\ running' \subseteq Range(cwop_targets)
            /\ DOMAIN cwop_rows' \subseteq Range(cwop_targets)
       /\ (pc = "cwop" /\ pc' = "lastgood") =>
            /\ DOMAIN cwop_rows = Range(cwop_targets)
            /\ \A i \in Rows :
                  stations[i].id \notin Range(cwop_targets) => stations'[i] = stations[i]]_vars

\* the secondary stage is over: one station had its fetch and took the CWOP
\* temperature, another was recent and had none
C8_Witness ==
    /\ pc = "lastgood"
    /\ \E i, j \in Rows :
          /\ stations[i].id \in DOMAIN cwop_rows
          /\ stations[i].provider = Some(CWOP_LABEL)
          /\ stations[j].id \notin DOMAIN cwop_rows
          /\ stations[j].recent = Some(TRUE)

-----------------------------------------------------------------------------
\* C9: once the secondary-merge stage has completed, and again once the
\* last-good stage has completed, every row's age_min and recent are the
\* values its current temperature observation time and now give.
C9_RecencyCurrentAfterEachStage ==
    pc \in {"lastgood", "output"} => \A i \in Rows : RecencyCurrent(stations[i])

-----------------------------------------------------------------------------
\* C10: a primary fetch that fails yields a blank row (id and name only), no
\* failed fetch aborts the run, and the run goes on to the output stage with
\* one row per configured station, in the configured order.
C10_FailedFetchGivesBlankRow ==
    /\ pc # "aborted"
    /\ pc \in {"primary", "cwop"} =>
          \A i \in Rows :
              <<"madis", stations[i].id>> \in fetch_failed =>
                  /\ \A k \in ObsKeys : stations[i][k] = None
                  /\ stations[i].name = STATION_NAMES[stations[i].id]
    /\ pc \in {"cwop", "lastgood", "output"} =>
          /\ Len(stations) = Len(roster)
          /\ \A i \in Rows : stations[i].id = roster[i]
    /\ pc # "output" => ENABLED Next

\* every primary and every secondary fetch failed and the run is at its output
C10_Witness ==
    /\ pc = "output"
    /\ Len(stations) = Len(roster)
    /\ fetch_failed = {<<f, s>> : f \in {"madis", "cwop"}, s \in Range(roster)}

-----------------------------------------------------------------------------
\* the ids of a table, in its order
Ids(rows) == [i \in 1..Len(rows) |-> rows[i].id]

\* the classified table that a set of completed primary rows gives
Classified(rows) ==
    [i \in 1..Len(roster) |->
        update_age_and_recency(CHOOSE r \in rows : r.id = roster[i], now_utc)]

\* C11: whatever order the fetch tasks complete in, the table after the join
\* of the primary stage is the one the set of returned rows determines, in
\* STATIONS order with every configured id once; it stays in that order, and
\* the secondary rows are kept under their own station's id, so the reconciled
\* rows do not depend on the completion order.
C11_CompletionOrderIrrelevant ==
    [][ /\ (pc = "primary" /\ pc' \in {"cwop", "lastgood"}) =>
               stations' = Classified(Range(stations))
        /\ pc' \in {"cwop", "lastgood", "output"} => Ids(stations') = roster
        /\ \A s \in DOMAIN cwop_rows' :
               cwop_rows'[s].id = s /\ s \in Range(cwop_targets')
        /\ (pc = "cwop" /\ pc' = "lastgood") => DOMAIN cwop_rows = Range(cwop_targets)
      ]_vars

\* a run has reached its output although a primary task overtook one submitted
\* before it, with both stations fetched from the secondary feed
C11_Witness ==
    /\ pc = "output"
    /\ reordered
    /\ Ids(stations) = roster
    /\ DOMAIN cwop_rows = Range(roster)
    /\ Len(roster) >= 2

-----------------------------------------------------------------------------
\* a row update_age_and_recency has classified
IsClassified(row) == Get(row, "recent") # None

\* C12: at most 4 fetch tasks run at a time in either stage; a completing task
\* adds its own row (or its own entry of cwop_rows) and changes nothing else;
\* while a task of the stage is still queued or running the coordinator does
\* not classify, merge or write; and the secondary stage starts only on a
\* table that holds every station's classified primary row.
C12_PoolBoundAndBarrier ==
    [][ /\ Cardinality(running') <= MAX_WORKERS
        /\ (pc = "primary" /\ stations' # stations /\ pc' = "primary") =>
               /\ \E s \in running :
                      /\ running' = running \ {s}
                      /\ Len(stations') = Len(stations) + 1
                      /\ stations'[Len(stations')].id = s
                      /\ SubSeq(stations', 1, Len(stations)) = stations
               /\ UNCHANGED <<cwop_rows, last_good, disk>>
        /\ (pc = "cwop" /\ cwop_rows' # cwop_rows) =>
               /\ \E s \in running :
                      /\ running' = running \ {s}
                      /\ DOMAIN cwop_rows' = DOMAIN cwop_rows \cup {s}
                      /\ \A other \in DOMAIN cwop_rows : cwop_rows'[other] = cwop_rows[other]
               /\ UNCHANGED <<stations, last_good, disk>>
        /\ (pc \in {"primary", "cwop"} /\ (queued # {} \/ running # {})) =>
               /\ pc' = pc
               /\ disk' = disk
               /\ pc = "primary" => \A i \in 1..Len(stations') : ~IsClassified(stations'[i])
               /\ pc = "cwop" => stations' = stations
        /\ pc' = "cwop" =>
               /\ Ids(stations') = roster
               /\ \A i \in 1..Len(stations') : IsClassified(stations'[i])
      ]_vars

\* the secondary stage has 4 tasks running and another one waiting for a worker
C12_Witness ==
    /\ pc = "cwop"
    /\ Cardinality(running) = MAX_WORKERS
    /\ queued # {}

-----------------------------------------------------------------------------
\* load_rass_with_fallback has returned or raised
Terminated == rass.pc \in {"live", "cached", "raised"}

\* the candidates tried so far, the one being tried included
Tried == {rass.candidates[k] : k \in 1..rass.idx}

\* a failure of candidate `file` is recorded in errors
Rejected(file) == \E k \in 1..Len(rass.errors) : rass.errors[k].what = Src("file", file)

\* the state of a load that tries its candidates newest first and stops at the
\* first one that fetches and parses
NewestFirst ==
    /\ Len(rass.candidates) <= RASS_CANDIDATE_COUNT
    /\ \A k \in 1..(Len(rass.candidates) - 1) : rass.candidates[k] > rass.candidates[k + 1]
    /\ rass.fetched \subseteq Tried
    /\ \A k \in 1..(rass.idx - 1) :
           rass.candidates[k] \in rass.fetched /\ Rejected(rass.candidates[k])
    /\ rass.pc = "live" =>
           LET filename == rass.candidates[rass.idx]
               raw == rass.call.body
           IN  /\ rass.call.url.kind = "file" /\ rass.call.url.file = filename
               /\ rass.call.outcome = "ok"
               /\ raw[1] = <<Num(filename)>>
               /\ parse_rass(raw).ok
               /\ rass.result = Some([filename |-> Src("file", filename),
                                      rass_points |-> parse_rass(raw).points,
                                      rass_source |-> "live"])
               /\ disk[RASS_TEXT_PATH] = Some(raw)
               /\ rass.fetched = Tried
               /\ \A file \in rass.fetched : file >= filename

\* C13: the candidates are the (at most 5) newest files of the day listing, in
\* descending order; they are tried in that order; a "live" return names the
\* first candidate whose fetch and parse both succeeded, every newer candidate
\* has a recorded failure, the cache file then holds that candidate's raw text
\* and no older candidate has been fetched.
C13_NewestCandidateFirst ==
    /\ []NewestFirst
    /\ [][(rass.pc = "day" /\ rass'.pc = "file") =>
               LET listed == Range(rass.call.body)
                   chosen == Range(rass'.candidates)
               IN  /\ chosen \subseteq listed
                   /\ Len(rass'.candidates) = Cardinality(chosen)
                   /\ Cardinality(chosen) =
                          (IF Cardinality(listed) < RASS_CANDIDATE_COUNT
                           THEN Cardinality(listed) ELSE RASS_CANDIDATE_COUNT)
                   /\ \A old \in listed \ chosen : \A new \in chosen : old < new
        ]_vars

\* a live return from the third of 5 candidates, out of a listing of 6 files
C13_Witness ==
    /\ rass.pc = "live"
    /\ rass.candidates = <<6, 5, 4, 3, 2>>
    /\ rass.idx = 3
    /\ disk[RASS_TEXT_PATH] = Some(RassText(4, TableGood))

-----------------------------------------------------------------------------
\* the cache file holds a text that parses
CacheParses == disk[RASS_TEXT_PATH] # None /\ parse_rass(disk[RASS_TEXT_PATH][1]).ok

\* directory discovery failed
DiscoveryError ==
    \E k \in 1..Len(rass.errors) : rass.errors[k].what = Src("directory-listing", 0)

\* C14: when no candidate returns live (discovery failed, or every candidate
\* tried failed to fetch or parse) the cached raw file is parsed again and, if
\* it exists and parses, its profile is returned with source "cached"; a
\* "cached" return never follows a candidate that fetched and parsed.
C14_CachedOnlyWithoutLive ==
    /\ [](rass.pc = "cached" =>
             /\ CacheParses
             /\ rass.result = Some([filename |-> Src(RASS_TEXT_PATH, 0),
                                    rass_points |-> parse_rass(disk[RASS_TEXT_PATH][1]).points,
                                    rass_source |-> "cached"])
             /\ DiscoveryError \/ (rass.idx = Len(rass.candidates) /\ rass.idx > 0)
             /\ \A file \in rass.fetched : Rejected(file))
    /\ [][ /\ (rass.pc = "cache" /\ rass'.pc = "cached") => disk' = disk
           /\ (rass.pc = "cache" /\ CacheParses) => rass'.pc = "cached"
           /\ (rass.pc = "cache" /\ ~CacheParses) => rass'.pc = "raised"
           /\ rass.pc \in {"root", "year", "day", "file"} =>
                  rass'.pc \in {"root", "year", "day", "file", "cache", "live"}
        ]_vars

\* a cached return after all 5 candidates were fetched and rejected
C14_Witness ==
    /\ rass.pc = "cached"
    /\ Cardinality(rass.fetched) = RASS_CANDIDATE_COUNT
    /\ ~DiscoveryError

-----------------------------------------------------------------------------
\* C15: when no candidate is live and the cached file is absent or does not
\* parse, load_rass_with_fallback raises one error carrying the last (at most
\* 4) recorded causes; the run then aborts with no station fetched and none of
\* the chart, CSV, state and history files touched; and the run aborts in no
\* other case.
C15_RaisesOnlyWhenProfileExhausted ==
    /\ rass.pc = "raised" =>
          /\ ~CacheParses
          /\ rass.detail = Last(rass.errors, 4)
          /\ Len(rass.detail) \in 1..4
          /\ pc = "aborted"
          /\ stations = <<>> /\ queued = {} /\ running = {} /\ fetch_failed = {}
          /\ \A path \in OutputPaths : disk[path] = Some("previous run")
    /\ (Terminated /\ ~CacheParses) => rass.pc = "raised"
    /\ pc = "aborted" => rass.pc = "raised"

-----------------------------------------------------------------------------
\* C16: a fetch_text_with_retry call makes no attempt after a success; it
\* makes 3 attempts at most for a listing and 2 for a candidate file, all of
\* them when none succeeds; it has slept once after each failed attempt but
\* the last; and the error it raises is the one of its last attempt.
C16_RetryDiscipline ==
    /\ [](LET c == rass.call
          IN  /\ c.retries = (IF c.url.kind = "file" THEN RASS_FILE_RETRIES
                              ELSE RASS_LIST_RETRIES)
              /\ c.outcome = "running" => c.attempt < c.retries /\ c.sleeps = c.attempt
              /\ c.outcome = "ok" => c.attempt \in 1..c.retries /\ c.sleeps = c.attempt - 1
              /\ c.outcome = "raised" =>
                     /\ c.attempt = c.retries
                     /\ c.sleeps = c.retries - 1
                     /\ c.last_exc = Some([exc |-> "URLError", attempt |-> c.retries])
              /\ \A k \in 1..Len(rass.errors) :
                     rass.errors[k].exc.exc = "URLError" =>
                         rass.errors[k].exc.attempt =
                             (IF rass.errors[k].what.kind = "file" THEN RASS_FILE_RETRIES
                              ELSE RASS_LIST_RETRIES))
    /\ [][rass.call.outcome # "running" =>
              (rass'.call = rass.call \/ rass'.call.attempt = 0)]_vars

\* a candidate's fetch has failed twice, with one sleep in between, and raised
C16_Witness ==
    /\ rass.call.url.kind = "file"
    /\ rass.call.outcome = "raised"
    /\ rass.call.attempt = RASS_FILE_RETRIES
    /\ rass.call.sleeps = 1

-----------------------------------------------------------------------------
\* C17: when no fetch attempt hangs, load_rass_with_fallback returns or raises,
\* and it never makes more than 3 * 3 + 5 * 2 = 19 fetch attempts.
C17_LoadTerminates ==
    /\ <>Terminated
    /\ [](rass.fetches <= RASS_LIST_RETRIES * 3 + RASS_CANDIDATE_COUNT * RASS_FILE_RETRIES)

\* a load that has ended after 19 fetch attempts
C17_Witness ==
    /\ Terminated
    /\ rass.fetches = 19

-----------------------------------------------------------------------------
\* the altitudes of the valid sample points and of the resampled profile
SampleAlts == {parse.points[i][1] : i \in 1..Len(parse.points)}

OutAlts == {parse.out[k][1] : k \in 1..Len(parse.out)}

-----------------------------------------------------------------------------
\* the entry the resampling loop appended last, and the segment it used
LastOut == parse.out[Len(parse.out)]

Lower == parse.points[parse.j + 1]

Upper == parse.points[parse.j + 2]

\* C19: each resampled temperature is interpolated between two input points
\* whose altitudes bracket the grid altitude, found by a pointer that never
\* moves back; at the altitude of an input sample it is exactly that sample's
\* temperature; between two points of equal altitude it is the lower point's
\* temperature.
C19_InterpolationBracketsAndIsExact ==
    /\ []((parse.pc \in {"resample", "returned"} /\ parse.out # <<>>) =>
            /\ Lower[1] <= LastOut[1] /\ LastOut[1] <= Upper[1]
            /\ LastOut[2] = Interpolate(Lower[1], Lower[2], Upper[1], Upper[2], LastOut[1])
            /\ Upper[1] = Lower[1] => LastOut[2] = Lower[2]
            /\ LastOut[1] \in SampleAlts =>
                   \E i \in 1..Len(parse.points) :
                       parse.points[i] = LastOut)
    /\ [][parse'.j >= parse.j]_vars

-----------------------------------------------------------------------------
\* a row whose first two tokens are numbers and whose temperature is below
\* the missing-value sentinel
NumericRow(line) ==
    /\ Len(line) >= 2
    /\ line[1].kind \in {"num", "inf"}
    /\ line[2].kind \in {"num", "inf"}
    /\ Float(line[2])[1] < MISSING_TEMP

\* the points of the rows between the header and the first blank or "$" line
DescribedPoints(raw) ==
    LET start == HeaderIndex(raw)[1]
        ends == {i \in start..Len(raw) : raw[i] = <<>> \/ StartsWith(raw[i], <<"$">>)}
        stop == IF ends = {} THEN Len(raw) + 1 ELSE Min(ends)
        rows == SelectSeq(SubSeq(raw, start, stop - 1), NumericRow)
    IN  [i \in 1..Len(rows) |-> <<Float(rows[i][1])[1], Float(rows[i][2])[1]>>]

\* C20: parse_rass raises exactly when the text has no line starting with
\* "HT" or fewer than 2 valid points; the valid points are those of the rows
\* from the line after the header to the first blank or "$" line whose first
\* two tokens are numeric and whose temperature is below 999999.
C20_RaisesIffNoHeaderOrFewPoints ==
    /\ parse.pc = "raised" <=>
           /\ parse.pc \notin {"call", "idle"}
           /\ \/ HeaderIndex(parse.raw) = None
              \/ Len(DescribedPoints(parse.raw)) < 2
    /\ parse.pc \in {"resample", "returned"} =>
           parse.points = SortByAlt(DescribedPoints(parse.raw))

-----------------------------------------------------------------------------
\* the snapshots write_station_history prunes, in the order they were written:
\* the loaded history, then the current run's
Written == Append(hist.loaded, CurrentSnapshot(hist.now_utc, "now", 3))

\* a snapshot's content apart from its chart paths
Content(snapshot) == [run_at |-> snapshot.run_at, tag |-> snapshot.tag,
                      points |-> snapshot.points]

\* C21: in the history write_station_history writes, run timestamps increase
\* strictly, none is more than 48 hours before now, the current run's
\* snapshot is there, and of the snapshots written under one timestamp the
\* one written last is the one retained.
C21_HistorySortedPrunedDeduped ==
    hist.pc = "done" =>
        /\ \A i, k \in 1..Len(hist.history) :
               i < k => hist.history[i].run_at < hist.history[k].run_at
        /\ \A i \in 1..Len(hist.history) :
               hist.now_utc - hist.history[i].run_at <= HISTORY_RETENTION_HOURS * 3600
        /\ \E i \in 1..Len(hist.history) :
               hist.history[i] = CurrentSnapshot(hist.now_utc, "now", 3)
        /\ \A i \in 1..Len(hist.history) :
               \E w \in 1..Len(Written) :
                   /\ Content(Written[w]) = Content(hist.history[i])
                   /\ \A later \in (w + 1)..Len(Written) :
                          Written[later].run_at # Written[w].run_at

\* a history written from two snapshots of one timestamp and different
\* content, and from one older than the window
C21_Witness ==
    /\ hist.pc = "done"
    /\ \E i, k \in 1..Len(hist.loaded) :
           /\ i < k
           /\ hist.loaded[i].run_at = hist.loaded[k].run_at
           /\ hist.loaded[i].tag # hist.loaded[k].tag
           /\ hist.loaded[i].run_at \in {hist.history[n].run_at : n \in 1..Len(hist.history)}
           /\ hist.loaded[i].run_at # hist.now_utc

-----------------------------------------------------------------------------
\* loaded snapshot i lies in the retention window
Retainable(i) ==
    hist.now_utc - hist.loaded[i].run_at <= HISTORY_RETENTION_HOURS * 3600

\* no snapshot written after loaded snapshot i carries its timestamp
NotSuperseded(i) ==
    \A later \in (i + 1)..Len(Written) : Written[later].run_at # hist.loaded[i].run_at

\* C22 as stated: every loaded snapshot inside the retention window is in the
\* rewritten history with all of its content unchanged.
C22_LoadedSnapshotsUnchanged ==
    hist.pc = "done" =>
        \A i \in 1..Len(hist.loaded) :
            Retainable(i) => \E k \in 1..Len(hist.history) : hist.history[k] = hist.loaded[i]

\* C22 amended: a loaded snapshot inside the retention window that no later
\* snapshot supersedes is in the rewritten history with its content unchanged
\* apart from its chart paths, and these are unchanged too unless one of its
\* chart files was missing and its charts could be rebuilt: then they are the
\* paths of the rebuilt files.
C22_CarriedExceptRebuiltCharts ==
    [][(hist.pc = "call" /\ hist'.pc = "done") =>
          \A i \in 1..Len(hist.loaded) :
              (Retainable(i) /\ NotSuperseded(i)) =>
                  \E k \in 1..Len(hist'.history) :
                      /\ Content(hist'.history[k]) = Content(hist.loaded[i])
                      /\ \/ hist'.history[k].charts = hist.loaded[i].charts
                         \/ /\ hist'.history[k].charts = Some(ChartsOf(hist.loaded[i].run_at))
                            /\ hist.loaded[i].points >= 2
                            /\ \/ hist.loaded[i].charts = None
                               \/ \E which \in {"metric_svg", "imperial_svg"} :
                                      hist.loaded[i].charts[1][which] \notin
                                          hist.files \cup {ChartsOf(hist.now_utc)[which]}]_vars

\* a rewritten history that carries one loaded snapshot as it was and another
\* with rebuilt chart paths
C22_Witness ==
    /\ hist.pc = "done"
    /\ \E i \in 1..Len(hist.loaded) :
           /\ Retainable(i) /\ NotSuperseded(i)
           /\ hist.loaded[i].charts # None
           /\ \E k \in 1..Len(hist.history) : hist.history[k] = hist.loaded[i]
    /\ \E i \in 1..Len(hist.loaded) :
           /\ Retainable(i) /\ NotSuperseded(i)
           /\ hist.loaded[i].charts # None
           /\ \E k \in 1..Len(hist.history) :
                  /\ Content(hist.history[k]) = Content(hist.loaded[i])
                  /\ hist.history[k].charts # hist.loaded[i].charts

-----------------------------------------------------------------------------
\* the chart paths the snapshots of the rewritten history refer to
Referenced ==
    UNION {IF hist.history[k].charts = None THEN {}
           ELSE {hist.history[k].charts[1].metric_svg, hist.history[k].charts[1].imperial_svg} :
           k \in 1..Len(hist.history)}

-----------------------------------------------------------------------------
\* the call of the altitude domain that has returned, and its extremes
DomainReturned == render.pc = "returned" /\ render.fn = "altitude_domain"

ProfileAlts == {render.args.rass_points[i][1] : i \in 1..Len(render.args.rass_points)}

StationAlts == Range(render.args.station_alts)

\* m is the multiple of 100 at or below a, at or above a
IsFloor100(m, a) == m % 100 = 0 /\ m <= a /\ a < m + 100

IsCeil100(m, a) == m % 100 = 0 /\ a <= m /\ m < a + 100

\* the domain of a chart with eligible stations: from the multiple of 100 at
\* or below min(0, profile, stations) to the one at or above max(profile,
\* stations), and 100 units wide when that leaves it empty
DomainWithStations ==
    StationAlts # {} =>
        /\ IsFloor100(render.result[1][1], Min({0} \cup ProfileAlts \cup StationAlts))
        /\ \/ /\ IsCeil100(render.result[1][2], Max(ProfileAlts \cup StationAlts))
              /\ render.result[1][2] > render.result[1][1]
           \/ /\ Max(ProfileAlts \cup StationAlts) = render.result[1][1]
              /\ render.result[1][2] = render.result[1][1] + 100
        /\ render.result[1][2] - render.result[1][1] >= 100

\* C24 as stated: the domain with eligible stations, and without them the
\* profile's own altitude range, 100 units wide when the profile has one altitude.
C24_DomainOrProfileRange ==
    DomainReturned =>
        /\ DomainWithStations
        /\ StationAlts = {} =>
               render.result[1] =
                   <<Min(ProfileAlts), IF Max(ProfileAlts) > Min(ProfileAlts)
                                       THEN Max(ProfileAlts) ELSE Min(ProfileAlts) + 100>>

\* C24 amended: the domain with eligible stations, and without them the range
\* from 0 to the profile's highest altitude, or to 100 when that is not above 0.
C24_DomainOrZeroToProfileTop ==
    DomainReturned =>
        /\ DomainWithStations
        /\ StationAlts = {} =>
               render.result[1] = <<0, IF Max(ProfileAlts) > 0 THEN Max(ProfileAlts) ELSE 100>>

\* the domain of a profile that starts above 0, drawn without stations
C24_Witness ==
    /\ DomainReturned
    /\ StationAlts = {}
    /\ Min(ProfileAlts) > 0
    /\ render.result[1] = <<0, Max(ProfileAlts)>>

-----------------------------------------------------------------------------
LabelsReturned == render.pc = "returned" /\ render.fn = "labels"

\* C25: the labels draw_svg places are pairwise at least 12 pixels apart
\* vertically, and each lies inside the plot area.
C25_LabelsApartAndInside ==
    LabelsReturned =>
        /\ \A i, k \in 1..Len(render.result[1]) :
               i # k => Abs(render.result[1][i] - render.result[1][k]) >= 12
        /\ \A i \in 1..Len(render.result[1]) :
               /\ render.result[1][i] >= margin_top
               /\ render.result[1][i] <= height - margin_bottom

-----------------------------------------------------------------------------
BarbReturned == render.pc = "returned" /\ render.fn = "wind_barb_svg"

\* the speed the glyph shows, in knots
Shown == 50 * render.result[1].flags + 10 * render.result[1].feathers
             + 5 * render.result[1].half

\* C26: for a direction and a speed, wind_barb_svg draws flags, feathers and
\* a half-feather that add up to the multiple of 5 knots nearest to the speed
\* (negative speeds counting as 0), at most 4 feathers and 1 half-feather; it
\* draws the calm circle alone when that multiple is 0, a shaft otherwise;
\* and it draws nothing when the direction or the speed is missing.
C26_BarbShowsRoundedSpeed ==
    BarbReturned =>
        IF render.args.wind_dir_deg = None \/ render.args.wind_spd_mps = None
        THEN render.result[1] = NoGlyph
        ELSE /\ Shown % 5 = 0
             /\ \A speed \in {IF render.args.wind_spd_mps[1] < 0 THEN 0
                               ELSE render.args.wind_spd_mps[1]} :
                    \* |speed in knots - Shown| <= 2.5, in units of 1e-7 knot
                    /\ speed * KTS_PER_MPS - Shown * 10000000 <= 25000000
                    /\ Shown * 10000000 - speed * KTS_PER_MPS <= 25000000
             /\ render.result[1].feathers <= 4
             /\ render.result[1].half <= 1
             /\ render.result[1].circle = (IF Shown = 0 THEN 1 ELSE 0)
             /\ render.result[1].shaft = (IF Shown = 0 THEN 0 ELSE 1)

\* a barb of 97 knots: one flag, four feathers and a half-feather
C26_Witness ==
    /\ BarbReturned
    /\ render.args.wind_spd_mps = Some(4990)
    /\ render.result[1] = [circle |-> 0, shaft |-> 1, flags |-> 1, feathers |-> 4, half |-> 1]

-----------------------------------------------------------------------------
\* C27: a profile parse_rass returns has at least one resampled point.
C27_ReturnedProfileNotEmpty ==
    parse.pc = "returned" => parse.out # <<>>

-----------------------------------------------------------------------------
(* The cache across runs *)

FinalOfRun == stations[1]

AfterRun == observed.pc = "runs" /\ observed.runs > 0

\* minutes since the value of the field was observed by a feed
SinceObserved(k) == now_utc - observed.when[k][1]

\* C28: across runs that each load the state the run before wrote, a
\* dewpoint, gust or direction taken from the cache was first observed by a
\* feed at most LAST_GOOD_GRACE_MIN minutes before the run that takes it.
C28_CachedSecondaryFieldsExpire ==
    AfterRun =>
        \A k \in observed.adopted \ {"temp_c"} :
            SinceObserved(k) <= LAST_GOOD_GRACE_MIN

\* C29: across such runs, a temperature taken from the cache carries the
\* observation time the feed gave with it, that time is at most
\* LAST_GOOD_GRACE_MIN minutes before the run, and the row is classified
\* recent only when it is at most RECENT_MAX_AGE_MIN minutes before the run.
C29_CachedTemperatureKeepsItsTime ==
    (AfterRun /\ "temp_c" \in observed.adopted) =>
        /\ observed.when.temp_c # None
        /\ FinalOfRun.temp_ob_time = observed.when.temp_c
        /\ SinceObserved("temp_c") <= LAST_GOOD_GRACE_MIN
        /\ FinalOfRun.age_min = Some(SinceObserved("temp_c"))
        /\ (TruthyFlag(FinalOfRun.recent) <=> SinceObserved("temp_c") <= RECENT_MAX_AGE_MIN)

\* a temperature taken from the cache twice in a row, stale the second time
C29_Witness ==
    /\ AfterRun
    /\ observed.runs = 3
    /\ "temp_c" \in observed.adopted
    /\ SinceObserved("temp_c") = LAST_GOOD_GRACE_MIN
    /\ ~TruthyFlag(FinalOfRun.recent)

-----------------------------------------------------------------------------
\* C30: the cache file changes only in the step in which a candidate's text
\* has been fetched and has parsed, and then to exactly that text; a
\* candidate whose fetch or parse fails, a failed discovery and the return
\* from the cache leave the contents of the cache file as they were.
C30_CacheWrittenOnlyAfterParse ==
    [][ /\ disk'[RASS_TEXT_PATH] # disk[RASS_TEXT_PATH] =>
               /\ pc = "rass"
               /\ rass.pc = "file"
               /\ rass.call.outcome = "ok"
               /\ parse_rass(rass.call.body).ok
               /\ disk'[RASS_TEXT_PATH] = Some(rass.call.body)
               /\ rass'.pc = "live"
        /\ (rass.pc = "file" /\ rass'.pc = "live") =>
               disk'[RASS_TEXT_PATH] = Some(rass.call.body)
        /\ (rass.pc # rass'.pc /\ rass'.pc \in {"cache", "cached", "raised"}) =>
               disk'[RASS_TEXT_PATH] = disk[RASS_TEXT_PATH]
        /\ (rass.pc = "file" /\ rass'.pc = "file") =>
               disk'[RASS_TEXT_PATH] = disk[RASS_TEXT_PATH]
      ]_vars

\* a live return from the second candidate, after the first was fetched and
\* did not parse: the cache file holds the second candidate's text
C30_Witness ==
    /\ rass.pc = "live"
    /\ rass.idx = 2
    /\ Len(rass.errors) = 1
    /\ rass.candidates[1] \in rass.fetched
    /\ disk[RASS_TEXT_PATH] = Some(rass.call.body)
    /\ parse_rass(rass.call.body).ok

-----------------------------------------------------------------------------
\* C31: in the history write_station_history writes, two retained snapshots
\* with different run timestamps never refer to the same chart file.
C31_ChartFilesNotShared ==
    hist.pc = "done" =>
        \A i, j \in 1..Len(hist.history) :
            (/\ hist.history[i].run_at # hist.history[j].run_at
             /\ hist.history[i].charts # None
             /\ hist.history[j].charts # None) =>
                ChartFiles(hist.history[i].charts[1])
                    \cap ChartFiles(hist.history[j].charts[1]) = {}

-----------------------------------------------------------------------------
\* C32: when the primary row has a temperature that is not recent and an
\* observation time, the temperature observation time of the row
\* merge_cwop_if_needed returns is not earlier than the primary row's,
\* whatever the secondary feed returned.
C32_MergeKeepsTemperatureTime ==
    [][(/\ pc = "merge_call"
        /\ pc' = "merge_done"
        /\ stations[1].temp_c # None
        /\ ~TruthyFlag(stations[1].recent)
        /\ parse_iso_utc(stations[1].temp_ob_time) # None) =>
           /\ parse_iso_utc(stations'[1].temp_ob_time) # None
           /\ parse_iso_utc(stations'[1].temp_ob_time)[1]
                  >= parse_iso_utc(stations[1].temp_ob_time)[1]
      ]_vars

-----------------------------------------------------------------------------
\* C33: a snapshot in the history one run wrote is in the history the next
\* run writes whenever it is within the retention window at that run,
\* whatever the loads from the deployed URL and from HISTORY_PATH gave.
C33_SnapshotSurvivesNextRun ==
    (hist.pc = "runs" /\ hist.runs >= 2) =>
        \A i \in 1..Len(hist.previous) :
            InWindow(hist.previous[i].run_at, hist.now_utc) =>
                \E j \in 1..Len(hist.history) :
                    hist.history[j].run_at = hist.previous[i].run_at

====
